---------------------------- MODULE Spec2Model ----------------------------
(***************************************************************************)
(* Model of the research pipeline of meta-ads-generator:                   *)
(*   - the cache adapter (getCacheKey, getCachedResearch,                   *)
(*     setCachedResearch, deleteCachedResearch),                            *)
(*   - the orchestrator runResearch with its market fan-out, assembly and   *)
(*     fire-and-forget cache write.                                         *)
(* Strings that the code inspects character by character (host names, raw   *)
(* URL text) are sequences of one-character strings; strings the code only  *)
(* copies are TLA+ strings.                                                 *)
(***************************************************************************)
EXTENDS Integers, Sequences, FiniteSets, TLC

\* ------------------------------------------------------------------ bounds

\* longest host name drawn for the cache-key specification
MaxHostLen == 6
\* number of runResearch calls in one behaviour
MaxRuns == 2

\* requests one behaviour sends to the research route
MaxPosts == 2

\* ----------------------------------------------------------------- strings

\* "www." as the code's literal
WWW == <<"w", "w", "w", ".">>

AlnumChars == {"a", "b", "c", "k", "o", "u", "w", "1"}

IsAlnum(ch) == ch \in AlnumChars

\* s.includes(pat)
Includes(s, pat) ==
    \E i \in 1..(Len(s) - Len(pat) + 1) : SubSeq(s, i, i + Len(pat) - 1) = pat

\* index of the first occurrence of pat in s, 0 when there is none
IndexOf(s, pat) ==
    IF Includes(s, pat)
    THEN CHOOSE i \in 1..(Len(s) - Len(pat) + 1) :
            /\ SubSeq(s, i, i + Len(pat) - 1) = pat
            /\ \A j \in 1..(i - 1) : SubSeq(s, j, j + Len(pat) - 1) # pat
    ELSE 0

\* s.replace(pat, rep) with a string pattern: only the first occurrence
ReplaceFirst(s, pat, rep) ==
    LET i == IndexOf(s, pat)
    IN  IF i = 0 THEN s
        ELSE SubSeq(s, 1, i - 1) \o rep \o SubSeq(s, i + Len(pat), Len(s))

\* s.replace(/[^a-zA-Z0-9]/g, '_')
Sanitize(s) == [i \in 1..Len(s) |-> IF IsAlnum(s[i]) THEN s[i] ELSE "_"]

\* --------------------------------------------------------------------- URLs

(* A URL string as the platform's parser sees it: either it parses, and    *)
(* then the record holds the components new URL(url) yields, or it does not *)
(* and only its raw text is known.                                          *)
ParsedUrl(scheme, hostname, port, path) ==
    [ok |-> TRUE, scheme |-> scheme, hostname |-> hostname, port |-> port,
     path |-> path, text |-> <<>>]

BadUrl(text) ==
    [ok |-> FALSE, scheme |-> "", hostname |-> <<>>, port |-> "", path |-> "",
     text |-> text]

\* new URL(url) does not throw
isValidUrl(url) == url.ok

\* ---------------------------------------------------------------- cache key

KeyPrefix == "research:"

getCacheKey(url) ==
    IF url.ok
    THEN <<KeyPrefix>> \o ReplaceFirst(url.hostname, WWW, <<>>)
    ELSE <<KeyPrefix>> \o Sanitize(url.text)

\* --------------------------------------------------------- texts (abstract)

(* Texts the code only searches for keywords are TLA+ strings; KeywordsIn   *)
(* lists, for each text of the model's universe, the keywords of the code's *)
(* heuristics that occur in its lower-cased form, and LongWords its         *)
(* lower-cased words of more than four characters, in order.                *)
KeywordsIn(text) ==
    CASE text = "small business owners"     -> {"business"}
      [] text = "young professionals"       -> {"young", "professional"}
      [] text = "enterprise software"       -> {"enterprise"}
      [] text = "Best rated, fast service"  -> {"best", "fast", "service"}
      [] text = "Affordable quality tools"  -> {"affordable", "quality"}
      [] OTHER                              -> {}

LongWords(text) ==
    CASE text = "Fastest CRM for small teams" -> <<"fastest", "small", "teams">>
      [] text = "Fun toys"                    -> <<>>
      [] OTHER                                -> <<>>

\* list.join(' ').toLowerCase().includes(kw)
JoinedHas(list, kw) == \E i \in 1..Len(list) : kw \in KeywordsIn(list[i])

\* arr.slice(0, n)
Take(s, n) == SubSeq(s, 1, IF Len(s) < n THEN Len(s) ELSE n)

\* the elements of seq that are in keep, in seq's order
RECURSIVE Filter(_, _)
Filter(seq, keep) ==
    IF seq = <<>> THEN <<>>
    ELSE (IF Head(seq) \in keep THEN <<Head(seq)>> ELSE <<>>)
         \o Filter(Tail(seq), keep)

\* ------------------------------------------------------ orchestrator helpers

\* extractLocation: hostname.includes('.uk') and so on, 'USA' otherwise
extractLocation(url) ==
    IF ~url.ok THEN "USA"
    ELSE IF Includes(url.hostname, <<".", "u", "k">>) THEN "United Kingdom"
    ELSE IF Includes(url.hostname, <<".", "c", "a">>) THEN "Canada"
    ELSE IF Includes(url.hostname, <<".", "a", "u">>) THEN "Australia"
    ELSE "USA"

StrengthKeywords ==
    <<"best", "top", "leading", "popular", "trusted", "award", "certified">>

StrengthOf(kw) == <<"Recognized as ", kw, " in market">>

extractStrengths(description) ==
    LET hits == Filter(StrengthKeywords, KeywordsIn(description))
    IN  Take([i \in 1..Len(hits) |-> StrengthOf(hits[i])], 3)

\* the messages one description adds, in the order the code tests them
MessagesOf(description) ==
    LET k == KeywordsIn(description)
    IN  (IF "quality" \in k THEN <<"Focus on quality">> ELSE <<>>)
        \o (IF "affordable" \in k \/ "price" \in k
            THEN <<"Competitive pricing">> ELSE <<>>)
        \o (IF "fast" \in k \/ "quick" \in k
            THEN <<"Speed and efficiency">> ELSE <<>>)
        \o (IF "service" \in k THEN <<"Customer service focus">> ELSE <<>>)
        \o (IF "expert" \in k THEN <<"Expertise and experience">> ELSE <<>>)

\* Array.from(new Set(...)): first occurrences, in insertion order
RECURSIVE Dedup(_, _)
Dedup(seq, seen) ==
    IF seq = <<>> THEN <<>>
    ELSE IF Head(seq) \in seen THEN Dedup(Tail(seq), seen)
    ELSE <<Head(seq)>> \o Dedup(Tail(seq), seen \cup {Head(seq)})

RECURSIVE AllMessages(_)
AllMessages(competitors) ==
    IF competitors = <<>> THEN <<>>
    ELSE MessagesOf(Head(competitors).description) \o AllMessages(Tail(competitors))

extractCommonMessages(competitors) == Take(Dedup(AllMessages(competitors), {}), 5)

(* A brand is the object JSON.parse gave extractBrandInfo: missing is the   *)
(* set of the six fields the object does not have; reading .length, .join,  *)
(* .slice or [0] of a missing field throws a TypeError.                     *)
Has(brand, f) == f \notin brand.missing

identifyOpportunities(brand, competitors) ==
    Take((IF Len(brand.differentiators) > 0
          THEN <<<<"Emphasize unique ", brand.differentiators[1]>>>> ELSE <<>>)
         \o (IF Len(competitors) < 5
             THEN <<<<"Market has room for growth and new entrants">>>> ELSE <<>>)
         \o <<<<"Leverage ", brand.tone, " tone to stand out">>>>, 5)

suggestUniqueAngles(brand) ==
    Take(<<<<"Focus on ", brand.valueProposition>>>>
         \o (IF Len(brand.differentiators) > 1
             THEN <<<<"Combine ", brand.differentiators[1], " with ",
                      brand.differentiators[2]>>>>
             ELSE <<>>)
         \o <<<<"Target underserved ",
                IF Len(brand.targetMarkets) > 0 THEN brand.targetMarkets[1]
                ELSE "market segment">>>>, 5)

inferAgeRanges(targetMarkets) ==
    IF \E kw \in {"young", "millennial", "gen z"} : JoinedHas(targetMarkets, kw)
    THEN <<"18-24", "25-34">>
    ELSE IF \E kw \in {"professional", "business"} : JoinedHas(targetMarkets, kw)
    THEN <<"25-34", "35-44", "45-54">>
    ELSE IF \E kw \in {"senior", "retiree"} : JoinedHas(targetMarkets, kw)
    THEN <<"55-64", "65+">>
    ELSE <<"25-34", "35-44">>

inferIncomeLevel(productCategories) ==
    IF \E kw \in {"luxury", "premium", "high-end"} : JoinedHas(productCategories, kw)
    THEN "luxury"
    ELSE IF \E kw \in {"professional", "enterprise"} : JoinedHas(productCategories, kw)
    THEN "premium"
    ELSE IF \E kw \in {"affordable", "budget"} : JoinedHas(productCategories, kw)
    THEN "budget"
    ELSE "mid-range"

inferOccupations(targetMarkets) ==
    LET occupations ==
          (IF JoinedHas(targetMarkets, "professional")
           THEN <<"Professionals">> ELSE <<>>)
          \o (IF JoinedHas(targetMarkets, "business")
                 \/ JoinedHas(targetMarkets, "entrepreneur")
              THEN <<"Business Owners">> ELSE <<>>)
          \o (IF JoinedHas(targetMarkets, "developer") \/ JoinedHas(targetMarkets, "tech")
              THEN <<"Tech Workers">> ELSE <<>>)
          \o (IF JoinedHas(targetMarkets, "marketer")
              THEN <<"Marketing Professionals">> ELSE <<>>)
          \o (IF JoinedHas(targetMarkets, "student") THEN <<"Students">> ELSE <<>>)
    IN  IF Len(occupations) > 0 THEN occupations ELSE <<"General Public">>

inferAwarenessLevel(objective) ==
    CASE objective = "competitor-analysis" -> "solution-aware"
      [] objective = "market-trends"       -> "problem-aware"
      [] objective = "audience-insights"   -> "product-aware"
      [] objective = "full-research"       -> "solution-aware"
      [] OTHER                             -> "solution-aware"

extractKeywords(text) == Take(LongWords(text), 10)

extractEmotionalTriggers(tone) ==
    CASE tone = "professional"  -> <<"trust", "reliability", "expertise", "results">>
      [] tone = "casual"        -> <<"easy", "simple", "friendly", "relatable">>
      [] tone = "friendly"      -> <<"helpful", "supportive", "caring", "welcoming">>
      [] tone = "urgent"        -> <<"now", "limited", "act fast", "don't miss">>
      [] tone = "humorous"      -> <<"fun", "entertaining", "enjoyable", "lighthearted">>
      [] tone = "authoritative" -> <<"proven", "expert", "leader", "authority">>
      [] tone = "playful"       -> <<"exciting", "creative", "innovative", "fresh">>
      [] OTHER                  -> <<"trust", "reliability", "expertise", "results">>

\* calculateQualityScore with weights that still add up to 100
calculateQualityScoreHeavyCompetitors(metrics) ==
    (IF metrics.hasBrand THEN 40 ELSE 0)
    + (IF metrics.hasCompetitors THEN 40 ELSE 0)
    + (IF metrics.hasTrends THEN 10 ELSE 0)
    + (IF metrics.hasPainPoints THEN 10 ELSE 0)

\* calculateQualityScore without its last term
calculateQualityScoreNoPainPoints(metrics) ==
    (IF metrics.hasBrand THEN 40 ELSE 0)
    + (IF metrics.hasCompetitors THEN 25 ELSE 0)
    + (IF metrics.hasTrends THEN 20 ELSE 0)

calculateQualityScore(metrics) ==
    (IF metrics.hasBrand THEN 40 ELSE 0)
    + (IF metrics.hasCompetitors THEN 25 ELSE 0)
    + (IF metrics.hasTrends THEN 20 ELSE 0)
    + (IF metrics.hasPainPoints THEN 15 ELSE 0)


\* ------------------------------------------------------------- result record

Null == [kind |-> "null"]

(* The object literal runResearch builds.  Reading a list field the brand   *)
(* object does not have throws, so the literal is only evaluated for a      *)
(* brand with the three list fields (see assemblyThrows).                    *)
assembleResult(input, brand, location, competitors, trends, painPoints, now) ==
    [brand |-> brand,
     competitors |->
        [competitors |->
            [i \in 1..Len(competitors) |->
                [name |-> competitors[i].name,
                 url |-> competitors[i].url,
                 strengths |-> extractStrengths(competitors[i].description),
                 weaknesses |-> <<>>]],
         commonMessages |-> extractCommonMessages(competitors),
         opportunities |-> identifyOpportunities(brand, competitors),
         pricingStrategies |-> <<>>,
         uniqueAngles |-> suggestUniqueAngles(brand)],
     market |->
        [trends |->
            [i \in 1..Len(trends.risingTopics) |->
                [topic |-> trends.risingTopics[i], volume |-> "medium",
                 momentum |-> "stable"]],
         painPoints |-> [i \in 1..Len(painPoints) |-> painPoints[i].text],
         popularSearches |-> trends.relatedQueries,
         seasonalPatterns |-> <<>>,
         emergingOpportunities |-> Take(trends.risingTopics, 5)],
     audience |->
        [demographics |->
            [ageRanges |-> inferAgeRanges(brand.targetMarkets),
             locations |-> <<location>>,
             incomeLevel |-> inferIncomeLevel(brand.productCategories),
             occupation |-> inferOccupations(brand.targetMarkets)],
         awarenessLevel |-> inferAwarenessLevel(input.objective),
         commonLanguage |->
            [keywords |-> extractKeywords(brand.valueProposition),
             phrases |-> Take(brand.differentiators, 5),
             jargon |-> <<>>,
             emotionalTriggers |-> extractEmotionalTriggers(brand.tone)],
         behaviors |->
            [purchaseDrivers |-> brand.differentiators,
             objections |-> Take([i \in 1..Len(painPoints) |-> painPoints[i].text], 5),
             preferredChannels |-> <<"online", "social media">>]],
     timestamp |-> now,
     cached |-> FALSE,
     qualityScore |->
        calculateQualityScore(
            [hasBrand |-> TRUE,
             hasCompetitors |-> Len(competitors) > 0,
             hasTrends |-> Len(trends.relatedQueries) > 0,
             hasPainPoints |-> Len(painPoints) > 0]),
     sources |->
        <<[type |-> "web-scrape", url |-> input.url, reliability |-> "high"],
          [type |-> "search-results", url |-> "https://google.com",
           reliability |-> "high"]>>]

(* The first list field the literal dereferences that the brand object does *)
(* not have, in evaluation order: identifyOpportunities reads               *)
(* differentiators, suggestUniqueAngles differentiators and targetMarkets,  *)
(* inferAgeRanges targetMarkets, inferIncomeLevel productCategories.        *)
assemblyThrows(brand) ==
    IF ~Has(brand, "differentiators") THEN <<"TypeError: ", "differentiators">>
    ELSE IF ~Has(brand, "targetMarkets") THEN <<"TypeError: ", "targetMarkets">>
    ELSE IF ~Has(brand, "productCategories") THEN <<"TypeError: ", "productCategories">>
    ELSE <<>>

\* ------------------------------------------------------------------- JSON

\* the own keys of a ResearchResult, in the order the literal sets them
ResultKeys ==
    <<"brand", "competitors", "market", "audience", "timestamp", "cached",
      "qualityScore", "sources">>

(* JSON.stringify of an object: its properties as key/value pairs in key    *)
(* order.  JSON.parse of such a text: the object with those properties, a   *)
(* later pair for a key replacing an earlier one.                           *)
JSONstringify(obj) ==
    LET keys == Filter(ResultKeys, DOMAIN obj)
    IN  [i \in 1..Len(keys) |-> <<keys[i], obj[keys[i]]>>]

JSONparse(text) ==
    [k \in {text[i][1] : i \in 1..Len(text)} |->
        LET last == CHOOSE i \in 1..Len(text) :
                        /\ text[i][1] = k
                        /\ \A j \in (i + 1)..Len(text) : text[j][1] # k
        IN  text[last][2]]

\* every field of a result other than cached
Content(r) == [k \in DOMAIN r \ {"cached"} |-> r[k]]

\* ---------------------------------------------------------- cache adapter

\* 7 * 24 * 60 * 60
CACHE_TTL == 604800

(* The store as the adapter's requests address it: a function from the keys *)
(* it holds to the stored strings.                                          *)
StoreHas(st, key) == key \in DOMAIN st

\* a store that answers a read of an absent key with another key's entry
StoreGetAnyEntry(st, key) ==
    IF key \in DOMAIN st THEN [present |-> TRUE, result |-> st[key]]
    ELSE IF DOMAIN st # {}
    THEN [present |-> TRUE, result |-> st[CHOOSE k \in DOMAIN st : TRUE]]
    ELSE [present |-> FALSE, result |-> <<>>]

\* the body of the reply to GET /get/<key>: {result: <value or null>}
StoreGet(st, key) ==
    IF StoreHas(st, key) THEN [present |-> TRUE, result |-> st[key]]
    ELSE [present |-> FALSE, result |-> <<>>]

\* POST /set/<key> with body {value, ex}
StoreSet(st, key, body) ==
    [k \in DOMAIN st \cup {key} |-> IF k = key THEN body.value ELSE st[k]]

\* /del/<key>
StoreDel(st, key) == [k \in DOMAIN st \ {key} |-> st[k]]

\* what one request to the store can come to
GetOutcomes == {"transportError", "notOk", "badBody", "corruptValue", "ok"}
SetOutcomes == {"transportError", "notOk", "ok"}

isRedisConfigured(env) == env.url /\ env.token

(* getCachedResearch(url) under environment env, with the store holding st  *)
(* and the request coming to net: whether it raised, what it returned, and  *)
(* how many requests it sent.                                               *)
\* getCachedResearch with its test of data.result inverted
getCachedResearchMissesAlways(url, env, st, net) ==
    [raised |-> FALSE, ret |-> Null, requests |-> IF isRedisConfigured(env) THEN 1 ELSE 0]

\* getCachedResearch without `cachedData.cached = true`
getCachedResearchKeepsFlag(url, env, st, net) ==
    IF ~isRedisConfigured(env)
    THEN [raised |-> FALSE, ret |-> Null, requests |-> 0]
    ELSE LET data == StoreGet(st, getCacheKey(url))
         IN  IF net # "ok" \/ ~data.present
             THEN [raised |-> FALSE, ret |-> Null, requests |-> 1]
             ELSE [raised |-> FALSE, ret |-> JSONparse(data.result), requests |-> 1]

\* getCachedResearch whose catch throws the error again
getCachedResearchRethrows(url, env, st, net) ==
    IF ~isRedisConfigured(env)
    THEN [raised |-> FALSE, ret |-> Null, requests |-> 0]
    ELSE LET data == StoreGet(st, getCacheKey(url))
         IN  IF net \in {"transportError", "badBody", "corruptValue"}
             THEN [raised |-> TRUE, ret |-> Null, requests |-> 1]
             ELSE IF net = "notOk" \/ ~data.present
             THEN [raised |-> FALSE, ret |-> Null, requests |-> 1]
             ELSE [raised |-> FALSE,
                   ret |-> [JSONparse(data.result) EXCEPT !.cached = TRUE],
                   requests |-> 1]

getCachedResearch(url, env, st, net) ==
    IF ~isRedisConfigured(env)
    THEN [raised |-> FALSE, ret |-> Null, requests |-> 0]
    ELSE LET data == StoreGet(st, getCacheKey(url))
         IN  IF net \in {"transportError", "badBody", "corruptValue"}
             THEN [raised |-> FALSE, ret |-> Null, requests |-> 1]
             ELSE IF net = "notOk"
             THEN [raised |-> FALSE, ret |-> Null, requests |-> 1]
             ELSE IF ~data.present
             THEN [raised |-> FALSE, ret |-> Null, requests |-> 1]
             ELSE [raised |-> FALSE,
                   ret |-> [JSONparse(data.result) EXCEPT !.cached = TRUE],
                   requests |-> 1]

(* setCachedResearch(url, data) up to its await of fetch: the request it    *)
(* sends (none when the store is not configured).                           *)
NoRequest == [key |-> <<>>, body |-> Null]

\* setCachedResearch storing the data as given, without `cached: false`
setCachedResearchKeepsFlag(url, data, env) ==
    IF ~isRedisConfigured(env) THEN NoRequest
    ELSE [key |-> getCacheKey(url),
          body |-> [value |-> JSONstringify(data), ex |-> CACHE_TTL]]

setCachedResearch(url, data, env) ==
    IF ~isRedisConfigured(env) THEN NoRequest
    ELSE [key |-> getCacheKey(url),
          body |-> [value |-> JSONstringify([data EXCEPT !.cached = FALSE]),
                    ex |-> CACHE_TTL]]

(* setCachedResearch after the await: a failed request (rejected fetch,     *)
(* non-success status) is logged and the promise still resolves.            *)
setCachedResearchSettles(net) == [raised |-> FALSE]

(* deleteCachedResearch(url): whether it raised, how many requests it sent, *)
(* and the store afterwards.                                                *)
deleteCachedResearch(url, env, st, net) ==
    IF ~isRedisConfigured(env)
    THEN [raised |-> FALSE, requests |-> 0, store |-> st]
    ELSE [raised |-> FALSE, requests |-> 1,
          store |-> IF net = "ok" THEN StoreDel(st, getCacheKey(url)) ELSE st]


\* ----------------------------------------------------------- brand analysis

BrandFields ==
    {"name", "tone", "valueProposition", "differentiators", "productCategories",
     "targetMarkets"}

\* the object a reply parses to; a missing field holds a placeholder
BrandObject(name, tone, vp, diffs, cats, markets, missing) ==
    [name |-> name, tone |-> tone, valueProposition |-> vp, differentiators |-> diffs,
     productCategories |-> cats, targetMarkets |-> markets, missing |-> missing]

NoBrand == BrandObject("", "", "", <<>>, <<>>, <<>>, BrandFields)

(* scrapeWebsite(url) as runResearch sees it: net is what the scraping      *)
(* service comes to over the attempts.                                      *)
scrapeWebsite(url, net) ==
    IF ~isValidUrl(url)
    THEN [ok |-> FALSE, attempts |-> 0, error |-> <<"Invalid URL format: ">>]
    ELSE IF net = "ok" THEN [ok |-> TRUE, attempts |-> 1, error |-> <<>>]
    ELSE [ok |-> FALSE, attempts |-> 3,
          error |-> <<"Failed to scrape ", " after 3 attempts: ", net>>]

(* extractBrandInfo on the model's reply: an API error, a text without a    *)
(* JSON object, or a text whose JSON object parses to reply.obj.  Only name *)
(* and valueProposition are validated.                                      *)
extractBrandInfo(reply) ==
    IF reply.kind = "apiError"
    THEN [ok |-> FALSE, brand |-> NoBrand,
          error |-> <<"Failed to extract brand information: ", "api error">>]
    ELSE IF reply.kind = "noJson"
    THEN [ok |-> FALSE, brand |-> NoBrand,
          error |-> <<"Failed to extract brand information: ",
                      "Failed to parse brand information from Claude response">>]
    ELSE IF ~Has(reply.obj, "name") \/ ~Has(reply.obj, "valueProposition")
    THEN [ok |-> FALSE, brand |-> NoBrand,
          error |-> <<"Failed to extract brand information: ",
                      "Incomplete brand information extracted">>]
    ELSE [ok |-> TRUE, brand |-> reply.obj, error |-> <<>>]

\* researchBrand's catch: `Brand research failed: ${errorMessage}`
researchBrandError(error) == <<"Brand research failed: ">> \o error

\* the inner catch throwing the error it caught
analyzeErrorUnwrapped(error) == error

\* runResearch's inner catch: `Failed to analyze website: ${error.message}`
analyzeError(error) == <<"Failed to analyze website: ">> \o error

\* ------------------------------------------------------------- market calls

Calls == {"comp", "trend", "pain"}

Idle == [status |-> "idle", value |-> <<>>]
Running == [status |-> "running", value |-> <<>>]

\* searchCompetitors(industry, location) settling as out
searchCompetitors(industry, location, out) ==
    IF out.ok THEN [status |-> "fulfilled", value |-> out.value]
    ELSE [status |-> "rejected", value |-> <<>>]

\* getMarketTrends(keyword) settling as out: the TrendData carries the keyword
getMarketTrends(keyword, out) ==
    IF out.ok
    THEN [status |-> "fulfilled",
          value |-> [keyword |-> keyword, relatedQueries |-> out.value.relatedQueries,
                     risingTopics |-> out.value.risingTopics]]
    ELSE [status |-> "rejected", value |-> <<>>]

\* searchPainPoints(product) settling as out
searchPainPoints(product, out) ==
    IF out.ok THEN [status |-> "fulfilled", value |-> out.value]
    ELSE [status |-> "rejected", value |-> <<>>]

Settled(m, c) == m[c].status \in {"fulfilled", "rejected"}

\* a join that resolves with the first call to settle
allSettledFirstOnly(m) == \E c \in Calls : Settled(m, c)

\* Promise.allSettled: resolved once every call has settled
allSettled(m) == \A c \in Calls : Settled(m, c)

\* the competitor list left at its default whatever the call returned
competitorsOfDefaultOnly(m) == <<>>

\* the value of each slot after the join: the call's value, or the default

competitorsOf(m) == IF m.comp.status = "fulfilled" THEN m.comp.value ELSE <<>>

trendsOf(m, in) ==
    IF m.trend.status = "fulfilled" THEN m.trend.value
    ELSE [keyword |-> in.productType, relatedQueries |-> <<>>, risingTopics |-> <<>>]

painPointsOf(m) == IF m.pain.status = "fulfilled" THEN m.pain.value ELSE <<>>

\* input.location || extractLocation(input.url)
locationOf(in) == IF in.location # "" THEN in.location ELSE extractLocation(in.url)


\* ----------------------------------------------------------------- universe

HostA == <<"a", ".", "c", "o">>
HostUk == <<"b", ".", "u", "k">>

UrlA == ParsedUrl("https", HostA, "", "/")
UrlWwwA == ParsedUrl("http", WWW \o HostA, "8080", "/pricing?x=1")
UrlUk == ParsedUrl("https", HostUk, "", "/")
UrlBad == BadUrl(<<"a", " ", "b">>)

ResearchInput(url, productType, objective, location) ==
    [url |-> url, productType |-> productType, objective |-> objective,
     location |-> location]

InputA == ResearchInput(UrlA, "crm", "full-research", "")
InputWwwA == ResearchInput(UrlWwwA, "shoes", "market-trends", "Canada")
InputUk == ResearchInput(UrlUk, "crm", "audience-insights", "")
InputBad == ResearchInput(UrlBad, "crm", "competitor-analysis", "")

BrandFull ==
    BrandObject("Acme", "professional", "Fastest CRM for small teams",
                <<"speed", "price">>, <<"enterprise software">>,
                <<"small business owners">>, {})
BrandSparse == BrandObject("Toyz", "edgy", "Fun toys", <<>>, <<>>, <<>>, {})
BrandNoDiffs ==
    BrandObject("Acme", "casual", "Fun toys", <<>>, <<"enterprise software">>,
                <<"young professionals">>, {"differentiators"})
BrandNoMarkets ==
    BrandObject("Acme", "casual", "Fun toys", <<"speed">>, <<>>, <<>>,
                {"targetMarkets"})
BrandNoCats ==
    BrandObject("Acme", "casual", "Fun toys", <<"speed">>, <<>>,
                <<"young professionals">>, {"productCategories"})
ObjNoName ==
    BrandObject("", "casual", "Fun toys", <<"speed">>, <<>>, <<>>, {"name"})
ObjNoVp ==
    BrandObject("Acme", "casual", "", <<"speed">>, <<>>, <<>>, {"valueProposition"})

Json(obj) == [kind |-> "json", obj |-> obj]
ApiError == [kind |-> "apiError", obj |-> NoBrand]
NoJson == [kind |-> "noJson", obj |-> NoBrand]

Competitor(i, description) ==
    [name |-> <<"rival", i>>, url |-> <<"https://rival", i>>, title |-> <<"Rival ", i>>,
     description |-> description, position |-> i]

OneCompetitor == <<Competitor(1, "Best rated, fast service")>>
FiveCompetitors ==
    <<Competitor(1, "Best rated, fast service"), Competitor(2, ""),
      Competitor(3, "Affordable quality tools"), Competitor(4, ""),
      Competitor(5, "Best rated, fast service")>>

PainPoint(i) ==
    [text |-> <<"pain ", i>>, source |-> "Reddit", url |-> <<"https://reddit.com/", i>>,
     mentions |-> 1]

OnePainPoint == <<PainPoint(1)>>
SixPainPoints == [i \in 1..6 |-> PainPoint(i)]

Topics == <<"topic1", "topic2", "topic3", "topic4", "topic5", "topic6">>
Queries == <<"query1", "query2">>

Ok(value) == [ok |-> TRUE, value |-> value]
Fails == [ok |-> FALSE, value |-> <<>>]
Trend(queries, topics) == [relatedQueries |-> queries, risingTopics |-> topics]

(* A scenario bounds what one specification draws: the inputs of the calls, *)
(* the replies of the language model, what each market call settles as, the *)
(* outcomes of the scrape, and the number of runResearch calls.             *)
Rich ==
    [inputs |-> {InputA, InputWwwA, InputUk, InputBad},
     scrapes |-> {"ok", "timeout"},
     replies |-> {ApiError, NoJson, Json(ObjNoName), Json(ObjNoVp), Json(BrandFull),
                  Json(BrandSparse), Json(BrandNoDiffs), Json(BrandNoMarkets),
                  Json(BrandNoCats)},
     comp |-> {Fails, Ok(<<>>), Ok(OneCompetitor), Ok(FiveCompetitors)},
     trend |-> {Fails, Ok(Trend(<<>>, <<>>)), Ok(Trend(<<>>, Topics)),
                Ok(Trend(Queries, Topics))},
     pain |-> {Fails, Ok(<<>>), Ok(OnePainPoint), Ok(SixPainPoints)},
     runs |-> 1]

Small ==
    [inputs |-> {InputA, InputWwwA, InputUk},
     scrapes |-> {"ok"},
     replies |-> {Json(BrandFull), ApiError},
     comp |-> {Fails, Ok(OneCompetitor)},
     trend |-> {Ok(Trend(Queries, Topics))},
     pain |-> {Ok(<<>>)},
     runs |-> MaxRuns]

\* two runs for one input whose market calls fail, find nothing or find data
Pair ==
    [inputs |-> {InputA},
     scrapes |-> {"ok"},
     replies |-> {Json(BrandFull)},
     comp |-> {Fails, Ok(<<>>), Ok(OneCompetitor)},
     trend |-> {Fails, Ok(Trend(Queries, Topics))},
     pain |-> {Fails, Ok(OnePainPoint)},
     runs |-> 2]

(* The JSON body of a POST to the research route: fields is the set of the   *)
(* keys it carries; malformed is a body request.json() cannot parse.        *)
Body(fields, websiteUrl, productType, campaignGoal, loc, fr) ==
    [kind |-> "json", fields |-> fields, websiteUrl |-> websiteUrl,
     productType |-> productType, campaignGoal |-> campaignGoal, location |-> loc,
     forceRefresh |-> fr]

Required3 == {"websiteUrl", "productType", "campaignGoal"}

NoBody == Body({}, UrlBad, "", "", "", FALSE)
Malformed == [NoBody EXCEPT !.kind = "malformed"]
BodyPlain == Body(Required3, UrlA, "crm", "full-research", "", FALSE)
BodyCanada ==
    Body(Required3 \cup {"location"}, UrlA, "crm", "full-research", "Canada", FALSE)
BodyUkForced ==
    Body(Required3 \cup {"location", "forceRefresh"}, UrlUk, "crm", "market-trends",
         "Australia", TRUE)
BodyShortType == Body(Required3, UrlA, "c", "full-research", "", FALSE)
BodyBadGoal == Body(Required3 \cup {"location"}, UrlA, "crm", "sales", "Canada", FALSE)
BodyBadUrl == Body(Required3, UrlBad, "crm", "full-research", "", FALSE)
BodyNoUrl == Body({"productType", "campaignGoal"}, UrlBad, "crm", "full-research", "", FALSE)

\* requests to the research route, one run each
Route ==
    [inputs |-> {},
     bodies |-> {Malformed, BodyPlain, BodyCanada, BodyUkForced, BodyShortType,
                 BodyBadGoal, BodyBadUrl, BodyNoUrl},
     scrapes |-> {"ok", "timeout", "rate limit",
                  "No markdown content returned from Firecrawl"},
     replies |-> {Json(BrandFull), ApiError},
     comp |-> {Fails, Ok(OneCompetitor)},
     trend |-> {Ok(Trend(Queries, Topics))},
     pain |-> {Ok(<<>>)},
     runs |-> 1]

\* the runs the submissions of the research form start
Form ==
    [inputs |-> {},
     bodies |-> {},
     scrapes |-> {"ok", "timeout"},
     replies |-> {Json(BrandFull), ApiError},
     comp |-> {Fails, Ok(OneCompetitor)},
     trend |-> {Ok(Trend(Queries, Topics))},
     pain |-> {Ok(<<>>)},
     runs |-> 1]

\* -------------------------------------------------------------------- state

VARIABLES
    pc,            \* where the current runResearch call is
    input,         \* its ResearchInput
    forceRefresh,  \* its forceRefresh argument
    brandResearch, \* the BrandResearch it holds
    location,      \* the location it derived
    mkt,           \* the three market calls: status and value of each
    result,        \* the ResearchResult it returned (Null: none)
    error,         \* the message of the error it threw (<<>>: none)
    calls,         \* the external calls the current run has made
    store,         \* the cache store's content
    inflight,      \* the cache writes sent and not yet answered
    env,           \* which of the store's two environment variables are set
    clock,         \* the time new Date() reads
    runs,          \* runResearch calls started
    prev,          \* the previous run: its input and what it returned
    readSaw,       \* the cache read of the current run: what the store answered
    breaches,      \* cache adapter calls that raised or returned a record on failure
    disturbed,     \* a store request failed, an entry expired or was deleted
    scenario,      \* the scenario the behaviour draws from: "Rich", "Small", ...
    keyIn,         \* SpecKey: the two URLs
    keyOut,        \* SpecKey: their cache keys (<<>>: not computed)
    creds,         \* research route: the API keys set in process.env
    body,          \* research route: the body of the last request
    response,      \* research route: the response to it
    posts,         \* research route: requests received
    painIn,        \* SpecDedup: the pain points given to deduplicatePainPoints
    painOut,       \* SpecDedup: whether it was called and what it returned
    locIn,         \* SpecLocation: a research input
    locOut,        \* SpecLocation: the location derived from it ("": not yet)
    genBody,       \* generate route: the body of the request
    prompt,        \* generate route: the prompt sent to the provider (<<>>: none)
    requests,      \* generate route: requests sent to each provider
    genReply,      \* generate route: what the provider answered
    genResponse,   \* generate route: the response to the request
    scrape,        \* SpecScrape: the scrapeWebsite call
    retry,         \* SpecRetry: the retryWithBackoff call
    search         \* SpecSearch: the call of a search operation

vars ==
    <<pc, input, forceRefresh, brandResearch, location, mkt, result, error, calls,
      store, inflight, env, clock, runs, prev, readSaw, breaches, disturbed, scenario,
      keyIn, keyOut, creds, body, response, posts, painIn, painOut, locIn, locOut,
      genBody, prompt, requests, genReply, genResponse, scrape, retry, search>>

\* the scenario of the behaviour
S ==
    CASE scenario = "Rich" -> Rich
      [] scenario = "Small" -> Small
      [] scenario = "Pair" -> Pair
      [] scenario = "Route" -> Route
      [] scenario = "Form" -> Form

runVars == <<pc, input, forceRefresh, brandResearch, location, mkt, result, error, calls>>

\* what no step of runResearch or of the cache store changes
keyVars == <<keyIn, keyOut>>
routeVars == <<creds, body, response, posts>>
dedupVars == <<painIn, painOut>>
locVars == <<locIn, locOut>>
genVars == <<genBody, prompt, requests, genReply, genResponse>>
clientVars == <<scrape, retry, search>>
otherVars == <<scenario, keyVars, routeVars, dedupVars, locVars, genVars, clientVars>>

NoInput == ResearchInput(UrlBad, "", "", "")
NoPrev ==
    [kind |-> "none", input |-> NoInput, result |-> Null, mkt |-> [c \in Calls |-> Idle]]
NoRead == [answered |-> FALSE, value |-> <<>>]
NoResponse == [kind |-> "none", status |-> 0, success |-> FALSE, data |-> Null]
Providers == {"claude", "openai", "gemini"}
NoRequests == [p \in Providers |-> 0]
NoGenBody == [kind |-> "json", fields |-> {}, provider |-> "", researchData |-> Null]
NoReply == [kind |-> "none", text |-> <<>>]
EmptyStore == [k \in {} |-> <<>>]

\* a record an earlier run for InputA left in the store
OldRecord ==
    setCachedResearch(
        UrlA,
        assembleResult(InputA, BrandFull, "USA", OneCompetitor,
                       [keyword |-> "crm", relatedQueries |-> Queries,
                        risingTopics |-> Topics],
                       OnePainPoint, 0),
        [url |-> TRUE, token |-> TRUE]).body

\* no cache key is being computed
KeyIdle == keyIn = <<>> /\ keyOut = <<>>

\* the research route has received no request
RouteIdle ==
    /\ creds = {"FIRECRAWL_API_KEY", "SERP_API_KEY", "ANTHROPIC_API_KEY"}
    /\ body = NoBody
    /\ response = NoResponse
    /\ posts = 0

NotCalled == [called |-> FALSE, value |-> <<>>]
Returned(value) == [called |-> TRUE, value |-> value]

\* deduplicatePainPoints has not been given a list
DedupIdle == painIn = <<>> /\ painOut = NotCalled

\* no location has been derived
LocationIdle == locIn = NoInput /\ locOut = ""

\* the generate route has received no request
GenerateIdle ==
    /\ genBody = NoGenBody
    /\ prompt = <<>>
    /\ requests = NoRequests
    /\ genReply = NoReply
    /\ genResponse = NoResponse

(* A retry loop that has not been entered.  log is what the call has done   *)
(* so far, in order: <<"request", k>> for attempt k and <<"sleep", ms>>.    *)
NoLoop ==
    [pc |-> "idle", maxRetries |-> 0, attempt |-> 0, lastError |-> "", log |-> <<>>,
     value |-> "", error |-> <<>>]
NoScrape == [url |-> UrlBad, loop |-> NoLoop]
NoRetry == [initialDelay |-> 0, loop |-> NoLoop]
NoSearch ==
    [op |-> "none", pc |-> "idle", q |-> 0, got |-> <<>>, log |-> <<>>, value |-> <<>>,
     error |-> <<>>]

\* no call of the scraping client or of the search client has been made
ClientsIdle == scrape = NoScrape /\ retry = NoRetry /\ search = NoSearch

InitRun ==
    /\ pc = "idle"
    /\ input = NoInput
    /\ forceRefresh = FALSE
    /\ brandResearch = NoBrand
    /\ location = ""
    /\ mkt = [c \in Calls |-> Idle]
    /\ result = Null
    /\ error = <<>>
    /\ calls = {}
    /\ inflight = {}
    /\ clock = 0
    /\ runs = 0
    /\ prev = NoPrev
    /\ readSaw = NoRead
    /\ breaches = {}
    /\ disturbed = FALSE

Init ==
    /\ InitRun
    /\ env \in [url : BOOLEAN, token : BOOLEAN]
    /\ store \in {EmptyStore, StoreSet(EmptyStore, getCacheKey(UrlA), OldRecord)}
    /\ scenario = "Rich"
    /\ KeyIdle
    /\ RouteIdle
    /\ DedupIdle
    /\ LocationIdle
    /\ GenerateIdle
    /\ ClientsIdle

InitRepeat ==
    /\ InitRun
    /\ env \in {[url |-> TRUE, token |-> TRUE], [url |-> TRUE, token |-> FALSE]}
    /\ store = EmptyStore
    /\ scenario = "Small"
    /\ KeyIdle
    /\ RouteIdle
    /\ DedupIdle
    /\ LocationIdle
    /\ GenerateIdle
    /\ ClientsIdle


\* ------------------------------------------------------------------ actions

(* What a completed adapter call adds to breaches: it raised to its caller, *)
(* it returned a record although the request failed, or it sent a request   *)
(* although the store is not configured.                                    *)
Breach(op, r, failed, returnedRecord) ==
    (IF r.raised THEN {<<op, "raised">>} ELSE {})
    \cup (IF failed /\ returnedRecord THEN {<<op, "record on failure">>} ELSE {})
    \cup (IF ~isRedisConfigured(env) /\ r.requests > 0
          THEN {<<op, "request when unconfigured">>} ELSE {})

\* a run that checks the cache whatever forceRefresh says
firstStepAlwaysChecks(fr) == "cacheCheck"

\* `if (!forceRefresh)`: the cache check is the first step unless forced
firstStep(fr) == IF fr THEN "scrape" ELSE "cacheCheck"

\* runResearch(in, fr) is entered: the state of a new run
Enter(in, fr) ==
    /\ input' = in
    /\ forceRefresh' = fr
    /\ pc' = firstStep(fr)
    /\ prev' = [kind |-> IF pc = "done" THEN (IF result.cached THEN "hit" ELSE "fresh")
                         ELSE IF pc = "failed" THEN "failed" ELSE "none",
                input |-> input, result |-> result, mkt |-> mkt]
    /\ runs' = runs + 1
    /\ clock' = clock + 1
    /\ brandResearch' = NoBrand
    /\ location' = ""
    /\ mkt' = [c \in Calls |-> Idle]
    /\ result' = Null
    /\ error' = <<>>
    /\ calls' = {}
    /\ readSaw' = NoRead
    /\ UNCHANGED <<store, inflight, env, breaches, disturbed>>

(* A caller calls runResearch(input, forceRefresh); the calls of one        *)
(* behaviour follow one another.  With forceRefresh the cache check is      *)
(* skipped.                                                                 *)
Start ==
    /\ pc \in {"idle", "done", "failed"}
    /\ runs < S.runs
    /\ \E in \in S.inputs, fr \in BOOLEAN : Enter(in, fr)
    /\ UNCHANGED otherVars

(* Step 0: await getCachedResearch(input.url); a record ends the run.       *)
CacheCheck ==
    /\ pc = "cacheCheck"
    /\ \E net \in GetOutcomes :
        LET r == getCachedResearch(input.url, env, store, net)
            got == StoreGet(store, getCacheKey(input.url))
        IN  /\ calls' = calls \cup (IF r.requests > 0 THEN {"cacheGet"} ELSE {})
            /\ breaches' = breaches \cup Breach("get", r, net # "ok", r.ret # Null)
            /\ disturbed' = (disturbed \/ (r.requests > 0 /\ net # "ok"))
            /\ readSaw' = IF isRedisConfigured(env) /\ net = "ok" /\ got.present
                          THEN [answered |-> TRUE, value |-> got.result]
                          ELSE NoRead
            /\ IF r.raised
               THEN /\ pc' = "failed"
                    /\ error' = <<"cache read raised">>
                    /\ result' = result
               ELSE IF r.ret # Null
               THEN /\ pc' = "done"
                    /\ result' = r.ret
                    /\ error' = error
               ELSE /\ pc' = "scrape"
                    /\ UNCHANGED <<result, error>>
    /\ UNCHANGED <<input, forceRefresh, brandResearch, location, mkt, store, inflight,
                   env, clock, runs, prev, otherVars>>

(* Step 1, first half: researchBrand awaits scrapeWebsite(url).             *)
Scrape ==
    /\ pc = "scrape"
    /\ \E net \in S.scrapes :
        LET r == scrapeWebsite(input.url, net)
        IN  /\ calls' = calls \cup (IF r.attempts > 0 THEN {"scrape"} ELSE {})
            /\ IF r.ok
               THEN /\ pc' = "extract"
                    /\ error' = error
               ELSE /\ pc' = "failed"
                    /\ error' = analyzeError(researchBrandError(r.error))
    /\ UNCHANGED <<input, forceRefresh, brandResearch, location, mkt, result, store,
                   inflight, env, clock, runs, prev, readSaw, breaches, disturbed,
                   otherVars>>

(* Step 1, second half: researchBrand awaits extractBrandInfo(markdown).    *)
Extract ==
    /\ pc = "extract"
    /\ \E reply \in S.replies :
        LET r == extractBrandInfo(reply)
        IN  IF r.ok
            THEN /\ pc' = "brandDone"
                 /\ brandResearch' = r.brand
                 /\ error' = error
                 /\ calls' = calls \cup {"llm"}
            ELSE /\ pc' = "failed"
                 /\ brandResearch' = brandResearch
                 /\ error' = analyzeError(researchBrandError(r.error))
                 /\ calls' = calls \cup {"llm"}
    /\ UNCHANGED <<input, forceRefresh, location, mkt, result, store, inflight, env,
                   clock, runs, prev, readSaw, breaches, disturbed, otherVars>>

(* Steps 2 and 3: the location is derived and the three calls are made, in  *)
(* the order of the array literal, before runResearch awaits the join.      *)
FanOutStart ==
    /\ pc = "brandDone"
    /\ pc' = "fanout"
    /\ location' = locationOf(input)
    /\ mkt' = [c \in Calls |-> Running]
    /\ calls' = calls \cup {"searchCompetitors", "getMarketTrends", "searchPainPoints"}
    /\ UNCHANGED <<input, forceRefresh, brandResearch, result, error, store, inflight,
                   env, clock, runs, prev, readSaw, breaches, disturbed, otherVars>>

SettleCompetitors ==
    /\ pc = "fanout"
    /\ mkt.comp.status = "running"
    /\ \E out \in S.comp :
        mkt' = [mkt EXCEPT !.comp = searchCompetitors(input.productType, location, out)]
    /\ UNCHANGED <<pc, calls, input, forceRefresh, brandResearch, location, result,
                   error, store, inflight, env, clock, runs, prev, readSaw, breaches,
                   disturbed, otherVars>>

SettleTrends ==
    /\ pc = "fanout"
    /\ mkt.trend.status = "running"
    /\ \E out \in S.trend :
        mkt' = [mkt EXCEPT !.trend = getMarketTrends(input.productType, out)]
    /\ UNCHANGED <<pc, calls, input, forceRefresh, brandResearch, location, result,
                   error, store, inflight, env, clock, runs, prev, readSaw, breaches,
                   disturbed, otherVars>>

SettlePainPoints ==
    /\ pc = "fanout"
    /\ mkt.pain.status = "running"
    /\ \E out \in S.pain :
        mkt' = [mkt EXCEPT !.pain = searchPainPoints(input.productType, out)]
    /\ UNCHANGED <<pc, calls, input, forceRefresh, brandResearch, location, result,
                   error, store, inflight, env, clock, runs, prev, readSaw, breaches,
                   disturbed, otherVars>>

(* Step 4 to the return: once the join resolves, the result is compiled,    *)
(* setCachedResearch is called and not awaited (it runs up to its fetch),   *)
(* and the result is returned.  A TypeError in the object literal is caught *)
\* the assembly step of a run that awaits the cache write before it returns
AssembleAwaitsWrite ==
    /\ pc = "fanout"
    /\ allSettled(mkt)
    /\ LET thrown == assemblyThrows(brandResearch)
           res == assembleResult(input, brandResearch, location, competitorsOf(mkt),
                                 trendsOf(mkt, input), painPointsOf(mkt), clock)
           req == setCachedResearch(input.url, res, env)
       IN  IF thrown # <<>>
           THEN /\ pc' = "failed"
                /\ error' = thrown
                /\ UNCHANGED <<result, store, calls>>
           ELSE /\ pc' = "done"
                /\ result' = res
                /\ error' = error
                /\ IF req = NoRequest
                   THEN UNCHANGED <<store, calls>>
                   ELSE /\ \E net \in SetOutcomes :
                             store' = IF net = "ok" THEN StoreSet(store, req.key, req.body)
                                      ELSE store
                        /\ calls' = calls \cup {"cacheSet"}
    /\ UNCHANGED <<input, forceRefresh, brandResearch, location, mkt, inflight, breaches,
                   env, clock, runs, prev, readSaw, disturbed, otherVars>>

(* by the outer catch and thrown again.                                     *)
Assemble ==
    /\ pc = "fanout"
    /\ allSettled(mkt)
    /\ LET thrown == assemblyThrows(brandResearch)
           res == assembleResult(input, brandResearch, location, competitorsOf(mkt),
                                 trendsOf(mkt, input), painPointsOf(mkt), clock)
           req == setCachedResearch(input.url, res, env)
       IN  IF thrown # <<>>
           THEN /\ pc' = "failed"
                /\ error' = thrown
                /\ UNCHANGED <<result, inflight, calls, breaches>>
           ELSE /\ pc' = "done"
                /\ result' = res
                /\ error' = error
                /\ IF req = NoRequest
                   THEN UNCHANGED <<inflight, calls, breaches>>
                   ELSE /\ inflight' = inflight \cup {[run |-> runs, key |-> req.key,
                                                       body |-> req.body]}
                        /\ calls' = calls \cup {"cacheSet"}
                        /\ breaches' = breaches
                                \cup Breach("set", [raised |-> FALSE, requests |-> 1],
                                            FALSE, FALSE)
    /\ UNCHANGED <<input, forceRefresh, brandResearch, location, mkt, store, env, clock,
                   runs, prev, readSaw, disturbed, otherVars>>

(* The store answers a cache write: it stores the value, or the request     *)
(* fails; setCachedResearch resumes after its await and resolves.           *)
CacheWriteSettles ==
    /\ \E w \in inflight, net \in SetOutcomes :
        /\ inflight' = inflight \ {w}
        /\ store' = IF net = "ok" THEN StoreSet(store, w.key, w.body) ELSE store
        /\ breaches' = breaches
                        \cup Breach("set", [raised |-> setCachedResearchSettles(net).raised,
                                            requests |-> 0], net # "ok", FALSE)
        /\ disturbed' = (disturbed \/ net # "ok")
    /\ UNCHANGED <<runVars, env, clock, runs, prev, readSaw, otherVars>>

(* The store drops an entry whose time to live has passed.                  *)
StoreExpires ==
    /\ \E k \in DOMAIN store : store' = StoreDel(store, k)
    /\ disturbed' = TRUE
    /\ UNCHANGED <<runVars, inflight, env, clock, runs, prev, readSaw, breaches,
                   otherVars>>

(* A caller calls deleteCachedResearch(url) between two runs.               *)
DeleteCached ==
    /\ pc \in {"done", "failed"}
    /\ \E in \in S.inputs, net \in SetOutcomes :
        LET r == deleteCachedResearch(in.url, env, store, net)
        IN  /\ store' = r.store
            /\ breaches' = breaches \cup Breach("del", r, net # "ok", FALSE)
    /\ disturbed' = TRUE
    /\ UNCHANGED <<runVars, inflight, env, clock, runs, prev, readSaw, otherVars>>

(* A caller calls setCachedResearch(input.url, result) with the result the  *)
(* run returned, which on a cache hit carries cached = true.                *)
StoreReturned ==
    /\ pc = "done"
    /\ LET req == setCachedResearch(input.url, result, env)
       IN  /\ req # NoRequest
           /\ inflight' = inflight \cup {[run |-> runs, key |-> req.key, body |-> req.body]}
           /\ breaches' = breaches
                   \cup Breach("set", [raised |-> FALSE, requests |-> 1], FALSE, FALSE)
    /\ UNCHANGED <<runVars, store, env, clock, runs, prev, readSaw, disturbed, otherVars>>

Next ==
    \/ Start
    \/ CacheCheck
    \/ Scrape
    \/ Extract
    \/ FanOutStart
    \/ SettleCompetitors
    \/ SettleTrends
    \/ SettlePainPoints
    \/ Assemble
    \/ CacheWriteSettles
    \/ StoreExpires
    \/ DeleteCached
    \/ StoreReturned

\* one runResearch call, from any of the model's inputs and outcomes
Spec == Init /\ [][Next]_vars

\* repeated runResearch calls over a small universe
SpecRepeat == InitRepeat /\ [][Next]_vars

InitPair ==
    /\ InitRun
    /\ env = [url |-> TRUE, token |-> TRUE]
    /\ store = EmptyStore
    /\ scenario = "Pair"
    /\ KeyIdle
    /\ RouteIdle
    /\ DedupIdle
    /\ LocationIdle
    /\ GenerateIdle
    /\ ClientsIdle

\* two runResearch calls for one input, with every outcome of the market calls
SpecPair == InitPair /\ [][Next]_vars


\* ------------------------------------------------------- the research route

\* ResearchRequestSchema.parse(body): the validated data, defaults filled in
ResearchRequestSchema(b) ==
    [ok |-> /\ Required3 \subseteq b.fields
            /\ isValidUrl(b.websiteUrl)
            /\ Len(b.productType) >= 2
            /\ b.campaignGoal \in {"competitor-analysis", "market-trends",
                                   "audience-insights", "full-research"},
     websiteUrl |-> b.websiteUrl,
     productType |-> b.productType,
     campaignGoal |-> b.campaignGoal,
     location |-> IF "location" \in b.fields THEN b.location ELSE "USA",
     forceRefresh |-> IF "forceRefresh" \in b.fields THEN b.forceRefresh ELSE FALSE]

\* an environment check that does not ask for the search key
validateEnvironmentSkipsSearchKey(environment) ==
    LET missing == Filter(<<"FIRECRAWL_API_KEY", "ANTHROPIC_API_KEY">>,
                          {"FIRECRAWL_API_KEY", "ANTHROPIC_API_KEY"} \ environment)
    IN  [valid |-> Len(missing) = 0, missing |-> missing]

\* validateEnvironment(): the required keys process.env does not hold
validateEnvironment(environment) ==
    LET required == <<"FIRECRAWL_API_KEY", "SERP_API_KEY", "ANTHROPIC_API_KEY">>
        missing == Filter(required, {required[i] : i \in 1..Len(required)} \ environment)
    IN  [valid |-> Len(missing) = 0, missing |-> missing]

\* the phrases the route looks for that a part of an error message contains
PhrasesIn(part) ==
    CASE part = "rate limit" -> {"rate limit"}
      [] part = "timeout" -> {"timeout"}
      [] part = "429" -> {"429"}
      [] part = "SerpAPI rate limit exceeded. Please wait before retrying."
            -> {"rate limit"}
      [] part = "Invalid URL format: " -> {"Invalid URL"}
      [] part = "Failed to scrape " -> {"Failed to scrape"}
      [] OTHER -> {}

\* errorMessage.includes(phrase)
MessageIncludes(message, phrase) ==
    \E i \in 1..Len(message) : phrase \in PhrasesIn(message[i])

\* a route that looks for the scrape failure before the other causes
errorStatusScrapeFirst(message) ==
    IF MessageIncludes(message, "Invalid URL")
        \/ MessageIncludes(message, "Failed to scrape")
    THEN 400
    ELSE IF MessageIncludes(message, "rate limit") THEN 429
    ELSE IF MessageIncludes(message, "timeout") \/ MessageIncludes(message, "timed out")
    THEN 504
    ELSE 500

\* the status the route answers a failed runResearch with
errorStatus(message) ==
    IF MessageIncludes(message, "rate limit") THEN 429
    ELSE IF MessageIncludes(message, "timeout") \/ MessageIncludes(message, "timed out")
    THEN 504
    ELSE IF MessageIncludes(message, "Invalid URL")
            \/ MessageIncludes(message, "Failed to scrape")
    THEN 400
    ELSE 500

Sent(status, data) ==
    [kind |-> "sent", status |-> status, success |-> status = 200, data |-> data]

\* the `error` text of the answer to a failed runResearch
errorText(message) ==
    IF MessageIncludes(message, "rate limit")
    THEN <<"API rate limit exceeded. Please try again in a few minutes.">>
    ELSE IF MessageIncludes(message, "timeout") \/ MessageIncludes(message, "timed out")
    THEN <<"Research request timed out. Please try again with a simpler query.">>
    ELSE IF MessageIncludes(message, "Invalid URL")
            \/ MessageIncludes(message, "Failed to scrape")
    THEN <<"Unable to analyze website: ">> \o message
    ELSE <<"Research failed: ">> \o message

\* the answer to a failed runResearch: { success: false, error, duration }
Failed(message) ==
    [kind |-> "sent", status |-> errorStatus(message), success |-> FALSE, data |-> Null,
     error |-> errorText(message), keys |-> {"success", "error", "duration"}]

(* POST /api/research up to its first await of runResearch: the environment *)
(* check, then the body, then the research input, built without location.   *)
Handle(b) ==
    LET envCheck == validateEnvironment(creds)
        validatedData == ResearchRequestSchema(b)
        researchInput ==
            ResearchInput(validatedData.websiteUrl, validatedData.productType,
                          validatedData.campaignGoal, "")
    IN  IF ~envCheck.valid
        THEN /\ response' = Sent(503, Null)
             /\ body' = b
             /\ UNCHANGED <<runVars, store, inflight, env, clock, runs, prev,
                            readSaw, breaches, disturbed>>
        ELSE /\ body' = b
             /\ IF b.kind = "malformed"
                THEN /\ response' = Sent(500, Null)
                     /\ UNCHANGED <<runVars, store, inflight, env, clock, runs, prev,
                                    readSaw, breaches, disturbed>>
                ELSE IF ~validatedData.ok
                THEN /\ response' = Sent(400, Null)
                     /\ UNCHANGED <<runVars, store, inflight, env, clock, runs, prev,
                                    readSaw, breaches, disturbed>>
                ELSE /\ runs < S.runs
                     /\ response' = [NoResponse EXCEPT !.kind = "pending"]
                     /\ Enter(researchInput, validatedData.forceRefresh)

\* a client posts one of the scenario's bodies
Post ==
    /\ pc \in {"idle", "done", "failed"}
    /\ response.kind # "pending"
    /\ posts < MaxPosts
    /\ posts' = posts + 1
    /\ \E b \in S.bodies : Handle(b)
    /\ UNCHANGED <<scenario, keyVars, creds, dedupVars, locVars, genVars, clientVars>>

(* The rest of POST: runResearch returned or threw, and the route answers.  *)
Respond ==
    /\ response.kind = "pending"
    /\ pc \in {"done", "failed"}
    /\ response' = IF pc = "done" THEN Sent(200, result)
                   ELSE Failed(error)
    /\ UNCHANGED <<runVars, store, inflight, env, clock, runs, prev, readSaw, breaches,
                   disturbed, scenario, keyVars, creds, body, posts, dedupVars, locVars,
                   genVars, clientVars>>

InitRoute ==
    /\ InitRun
    /\ env \in {[url |-> TRUE, token |-> TRUE], [url |-> FALSE, token |-> FALSE]}
    /\ store \in {EmptyStore, StoreSet(EmptyStore, getCacheKey(UrlA), OldRecord)}
    /\ scenario = "Route"
    /\ KeyIdle
    /\ DedupIdle
    /\ LocationIdle
    /\ GenerateIdle
    /\ ClientsIdle
    /\ creds \in SUBSET {"FIRECRAWL_API_KEY", "SERP_API_KEY", "ANTHROPIC_API_KEY"}
    /\ body = NoBody
    /\ response = NoResponse
    /\ posts = 0

\* the runs of the route's requests; no other caller of runResearch
NextRoute ==
    \/ Post
    \/ Respond
    \/ CacheCheck
    \/ Scrape
    \/ Extract
    \/ FanOutStart
    \/ SettleCompetitors
    \/ SettleTrends
    \/ SettlePainPoints
    \/ Assemble
    \/ CacheWriteSettles

SpecRoute == InitRoute /\ [][NextRoute]_vars


\* ------------------------------------------------------- the research form

\* the values of the form's product type options
PRODUCT_TYPES ==
    <<"real-estate", "ecommerce", "services", "saas", "healthcare", "education",
      "restaurants", "retail", "finance", "automotive", "other">>

\* the values of the form's campaign goal options
CAMPAIGN_GOALS == <<"awareness", "leads", "sales", "full-research">>

\* what the form holds when it is submitted; "" is a selector left on its placeholder
FormData(websiteUrl, productType, campaignGoal, loc) ==
    [websiteUrl |-> websiteUrl, productType |-> productType,
     campaignGoal |-> campaignGoal, location |-> loc]

\* ResearchFormSchema accepts the data
ResearchFormSchema(data) ==
    /\ isValidUrl(data.websiteUrl)
    /\ Len(data.productType) >= 1
    /\ Len(data.campaignGoal) >= 1

\* the body onSubmit posts: JSON.stringify(data)
onSubmit(data) ==
    Body(Required3 \cup {"location"}, data.websiteUrl, data.productType,
         data.campaignGoal, data.location, FALSE)

\* the URLs typed, the options selected, and the location field
FormInputs ==
    {FormData(u, p, g, l) :
        u \in {UrlA, UrlBad},
        p \in {PRODUCT_TYPES[i] : i \in {2, 4, 11}} \cup {""},
        g \in {CAMPAIGN_GOALS[i] : i \in 1..Len(CAMPAIGN_GOALS)} \cup {""},
        l \in {"USA", "Canada"}}

(* handleSubmit(onSubmit): the resolver lets only data that ResearchFormSchema *)
(* accepts through to onSubmit, which posts it to /api/research.               *)
Submit ==
    /\ pc \in {"idle", "done", "failed"}
    /\ response.kind # "pending"
    /\ posts < MaxPosts
    /\ posts' = posts + 1
    /\ \E data \in FormInputs :
        /\ ResearchFormSchema(data)
        /\ Handle(onSubmit(data))
    /\ UNCHANGED <<scenario, keyVars, creds, dedupVars, locVars, genVars, clientVars>>

InitForm ==
    /\ InitRun
    /\ env \in {[url |-> TRUE, token |-> TRUE], [url |-> FALSE, token |-> FALSE]}
    /\ store \in {EmptyStore, StoreSet(EmptyStore, getCacheKey(UrlA), OldRecord)}
    /\ scenario = "Form"
    /\ KeyIdle
    /\ DedupIdle
    /\ LocationIdle
    /\ GenerateIdle
    /\ ClientsIdle
    /\ creds \in {{"FIRECRAWL_API_KEY", "SERP_API_KEY", "ANTHROPIC_API_KEY"},
                  {"FIRECRAWL_API_KEY", "ANTHROPIC_API_KEY"}}
    /\ body = NoBody
    /\ response = NoResponse
    /\ posts = 0

\* the runs of the form's submissions
NextForm ==
    \/ Submit
    \/ Respond
    \/ CacheCheck
    \/ Scrape
    \/ Extract
    \/ FanOutStart
    \/ SettleCompetitors
    \/ SettleTrends
    \/ SettlePainPoints
    \/ Assemble
    \/ CacheWriteSettles

SpecForm == InitForm /\ [][NextForm]_vars


\* ------------------------------------------------- cache keys of two URLs

HostChars == {"w", ".", "a"}

\* labels are not empty
WellFormedHost(h) ==
    /\ Len(h) >= 1
    /\ h[1] # "."
    /\ h[Len(h)] # "."
    /\ \A i \in 1..(Len(h) - 1) : ~(h[i] = "." /\ h[i + 1] = ".")

Hosts == {h \in UNION {[1..n -> HostChars] : n \in 1..MaxHostLen} : WellFormedHost(h)}

BadTexts == {<<"a", ":", "a">>, <<"a", " ", "1">>, <<"/", "a">>, <<"a">>}

\* the host name without a leading "www."
StripLeadingWww(h) ==
    IF Len(h) >= 4 /\ SubSeq(h, 1, 4) = WWW THEN SubSeq(h, 5, Len(h)) ELSE h

(* Two URLs whose host names agree up to a leading "www." and whose scheme, *)
(* port and path differ, or two URLs that do not parse.                    *)
InitKey ==
    /\ InitRun
    /\ env = [url |-> TRUE, token |-> TRUE]
    /\ store = EmptyStore
    /\ scenario = "Rich"
    /\ RouteIdle
    /\ DedupIdle
    /\ LocationIdle
    /\ GenerateIdle
    /\ ClientsIdle
    /\ keyOut = <<>>
    /\ \/ \E h1 \in Hosts, h2 \in Hosts :
            /\ StripLeadingWww(h1) = StripLeadingWww(h2)
            /\ keyIn = <<ParsedUrl("https", h1, "", "/"),
                         ParsedUrl("http", h2, "8080", "/pricing?x=1")>>
       \/ \E t1 \in BadTexts, t2 \in BadTexts : keyIn = <<BadUrl(t1), BadUrl(t2)>>

ComputeKeys ==
    /\ keyOut = <<>>
    /\ keyOut' = <<getCacheKey(keyIn[1]), getCacheKey(keyIn[2])>>
    /\ UNCHANGED <<runVars, store, inflight, env, clock, runs, prev, readSaw, breaches,
                   disturbed, scenario, keyIn, routeVars, dedupVars, locVars, genVars,
                   clientVars>>

NextKey == ComputeKeys

SpecKey == InitKey /\ [][NextKey]_vars


\* ------------------------------------------------ pain-point deduplication

\* longest list of pain points given to deduplicatePainPoints
MaxPainPoints == 3

\* the length the comparison key is cut to
KeyLen == 50

LowerLetters == {"a", "b", "x", "y"}
Digits == {"1"}
Whitespace == {" "}

\* String.prototype.toLowerCase on one character
LowerOf(ch) ==
    CASE ch = "A" -> "a"
      [] ch = "B" -> "b"
      [] ch = "X" -> "x"
      [] OTHER -> ch

toLowerCase(text) == [i \in 1..Len(text) |-> LowerOf(text[i])]

\* text.replace(/[^a-z0-9\s]/g, '')
removeOthers(text) == Filter(text, LowerLetters \cup Digits \cup Whitespace)

\* String.prototype.trim
RECURSIVE trim(_)
trim(text) ==
    IF text = <<>> THEN text
    ELSE IF Head(text) \in Whitespace THEN trim(Tail(text))
    ELSE IF text[Len(text)] \in Whitespace THEN trim(SubSeq(text, 1, Len(text) - 1))
    ELSE text

\* a comparison key that is not cut to 50 characters
painPointKeyUncut(text) == trim(removeOthers(toLowerCase(text)))

\* the normalized key deduplicatePainPoints compares
painPointKey(text) == Take(trim(removeOthers(toLowerCase(text))), KeyLen)

\* the loop of deduplicatePainPoints from element i on
RECURSIVE dedupFrom(_, _, _, _)
dedupFrom(painPoints, i, seen, unique) ==
    IF i > Len(painPoints) THEN unique
    ELSE LET key == painPointKey(painPoints[i].text)
         IN  IF key \notin seen
             THEN dedupFrom(painPoints, i + 1, seen \cup {key},
                            Append(unique, painPoints[i]))
             ELSE dedupFrom(painPoints, i + 1, seen, unique)

deduplicatePainPoints(painPoints) == dedupFrom(painPoints, 1, {}, <<>>)

\* n copies of ch
Rep(ch, n) == [i \in 1..n |-> ch]

(* Texts that agree or differ at, before and after character 50, in case,   *)
(* in punctuation and in whitespace.                                        *)
PainTexts ==
    {Rep("a", 50) \o <<"x">>,
     Rep("a", 50) \o <<"y">>,
     Rep("A", 50),
     Rep("a", 49) \o <<"b">>,
     Rep("a", 49) \o <<"!", "b", "x">>,
     <<"a", "b">>,
     <<"A", "-", "b", "!">>,
     <<" ", "a", "b", " ">>,
     <<"a", " ", "b">>,
     <<"1">>}

\* the i-th pain point of a search result
PainPointAt(i, text) ==
    [text |-> text, source |-> "Reddit", url |-> <<"https://reddit.com/", i>>,
     mentions |-> 1]

InitDedup ==
    /\ InitRun
    /\ env = [url |-> TRUE, token |-> TRUE]
    /\ store = EmptyStore
    /\ scenario = "Rich"
    /\ KeyIdle
    /\ RouteIdle
    /\ LocationIdle
    /\ GenerateIdle
    /\ ClientsIdle
    /\ painOut = NotCalled
    /\ \E n \in 1..MaxPainPoints :
        \E texts \in [1..n -> PainTexts] :
            painIn = [i \in 1..n |-> PainPointAt(i, texts[i])]

Deduplicate ==
    /\ ~painOut.called
    /\ painOut' = Returned(deduplicatePainPoints(painIn))
    /\ UNCHANGED <<runVars, store, inflight, env, clock, runs, prev, readSaw, breaches,
                   disturbed, scenario, keyVars, routeVars, locVars, genVars, painIn,
                   clientVars>>

NextDedup == Deduplicate

SpecDedup == InitDedup /\ [][NextDedup]_vars


\* ------------------------------------------------- location of an input

\* longest host name drawn for the location specification
MaxLocHostLen == 5

LocHostChars == {"a", "c", "k", "u", "."}

LocHosts ==
    {h \in UNION {[1..n -> LocHostChars] : n \in 1..MaxLocHostLen} : WellFormedHost(h)}

(* An input with or without an explicit location, whose URL parses to one   *)
(* of the hosts or does not parse.                                          *)
InitLocation ==
    /\ InitRun
    /\ env = [url |-> TRUE, token |-> TRUE]
    /\ store = EmptyStore
    /\ scenario = "Rich"
    /\ KeyIdle
    /\ RouteIdle
    /\ DedupIdle
    /\ GenerateIdle
    /\ ClientsIdle
    /\ locOut = ""
    /\ \E explicit \in {"", "Canada"} :
        \/ \E h \in LocHosts :
            locIn = ResearchInput(ParsedUrl("https", h, "", "/"), "crm",
                                  "full-research", explicit)
        \/ \E t \in BadTexts :
            locIn = ResearchInput(BadUrl(t), "crm", "full-research", explicit)

\* const location = input.location || extractLocation(input.url)
DeriveLocation ==
    /\ locOut = ""
    /\ locOut' = locationOf(locIn)
    /\ UNCHANGED <<runVars, store, inflight, env, clock, runs, prev, readSaw, breaches,
                   disturbed, scenario, keyVars, routeVars, dedupVars, genVars, locIn,
                   clientVars>>

NextLocation == DeriveLocation

SpecLocation == InitLocation /\ [][NextLocation]_vars


\* --------------------------------------------------------- ad generation

(* createAdPrompt(brandInfo, researchData): the sections of the prompt, in  *)
(* order; an absent second argument is Null.                                *)
createAdPrompt(brandInfo, researchData) ==
    <<"You are an expert Meta Ads copywriter", "Brand Name", "Product/Service",
      "Target Audience", "Tone", "Key Benefits">>
    \o (IF "context" \in brandInfo.fields THEN <<"Additional Context">> ELSE <<>>)
    \o (IF researchData # Null THEN <<"RESEARCH-POWERED INSIGHTS">> ELSE <<>>)
    \o <<"structure", "Requirements">>
    \o (IF researchData # Null THEN <<"RESEARCH-ENHANCED REQUIREMENTS">> ELSE <<>>)
    \o <<"Return ONLY a JSON object", "hook", "body", "cta">>
    \o (IF researchData # Null THEN <<"reasoning", "researchInsight", "competitorGap">>
        ELSE <<>>)

(* A reply text is a sequence of tokens: "{", "}", ",", "kv" (one           *)
(* "key": "value" pair), "42" (a number) and "prose" (anything else).       *)
IsJsonObject(text) ==
    /\ Len(text) >= 2
    /\ text[1] = "{"
    /\ text[Len(text)] = "}"
    /\ Len(text) > 2 => Len(text) % 2 = 1
    /\ \A i \in 2..(Len(text) - 1) : text[i] = IF i % 2 = 0 THEN "kv" ELSE ","

\* JSON.parse(text): any JSON value parses, everything else throws
JSONparseText(text) ==
    IF IsJsonObject(text) \/ text = <<"42">> THEN [ok |-> TRUE, value |-> text]
    ELSE [ok |-> FALSE, value |-> <<>>]

\* text.match(/\{[\s\S]*\}/): from the first "{" to the last "}"
jsonMatch(text) ==
    LET opens == {i \in 1..Len(text) : text[i] = "{"}
        first == CHOOSE i \in opens : \A j \in opens : i <= j
        closes == {i \in 1..Len(text) : text[i] = "}" /\ opens # {} /\ i > first}
        last == CHOOSE i \in closes : \A j \in closes : j <= i
    IN  IF opens = {} \/ closes = {} THEN [found |-> FALSE, text |-> <<>>]
        ELSE [found |-> TRUE, text |-> SubSeq(text, first, last)]

Raise(message) == [raised |-> TRUE, value |-> <<>>, error |-> message]
Return(value) == [raised |-> FALSE, value |-> value, error |-> ""]

\* the part of generateWithClaude and generateWithGemini after the reply
parseMatched(responseText) ==
    LET m == jsonMatch(responseText)
    IN  IF ~m.found THEN Raise("Failed to parse AI response")
        ELSE IF JSONparseText(m.text).ok THEN Return(JSONparseText(m.text).value)
        ELSE Raise("SyntaxError")

(* generateWithClaude after its one request: an API error propagates; a     *)
(* first content block that is not text reads as ''.                        *)
generateWithClaude(reply) ==
    IF reply.kind = "apiError" THEN Raise("api error")
    ELSE parseMatched(IF reply.kind = "text" THEN reply.text ELSE <<>>)

(* generateWithOpenAI after its one request: missing or empty content       *)
(* reads as '{}', and the whole content is parsed.                          *)
generateWithOpenAI(reply) ==
    IF reply.kind = "apiError" THEN Raise("api error")
    ELSE LET responseText == IF reply.kind = "text" /\ reply.text # <<>>
                             THEN reply.text ELSE <<"{", "}">>
         IN  IF JSONparseText(responseText).ok
             THEN Return(JSONparseText(responseText).value)
             ELSE Raise("SyntaxError")

\* generateWithGemini after its one request: response.text() may throw
generateWithGemini(reply) ==
    IF reply.kind \in {"apiError", "noText"} THEN Raise("api error")
    ELSE parseMatched(reply.text)

\* a research result as the client embeds it in its request
SomeResearch ==
    assembleResult(InputA, BrandFull, "USA", OneCompetitor,
                   [keyword |-> "crm", relatedQueries |-> Queries,
                    risingTopics |-> Topics],
                   OnePainPoint, 0)

RequiredFields == {"name", "product", "targetAudience", "keyBenefits"}

\* the bodies of the requests to the generate route
GenBodies ==
    {[NoGenBody EXCEPT !.kind = "malformed"]}
    \cup {[kind |-> "json", fields |-> f, provider |-> p, researchData |-> r] :
            f \in {RequiredFields, RequiredFields \cup {"tone", "context"},
                   RequiredFields \ {"product"}},
            p \in Providers \cup {"mistral"},
            r \in {Null, SomeResearch}}

Text(t) == [kind |-> "text", text |-> t]

\* what a provider may answer
GenReplies ==
    {[kind |-> "apiError", text |-> <<>>], [kind |-> "noText", text |-> <<>>]}
    \cup {Text(<<>>),
          Text(<<"prose">>),
          Text(<<"42">>),
          Text(<<"{", "}">>),
          Text(<<"{", "kv", "}">>),
          Text(<<"{", "kv", ",", "kv", ",", "kv", "}">>),
          Text(<<"prose", "{", "kv", ",", "kv", "}", "prose">>),
          Text(<<"{", "kv">>),
          Text(<<"{", "kv", ",", "}">>),
          Text(<<"}", "prose", "{">>),
          Text(<<"{", "prose", "}">>),
          Text(<<"{", "kv", "}", "prose", "{", "kv", "}">>)}

(* POST /api/generate up to the adapter's request: the body is validated,   *)
(* the prompt is built from the body alone, and the adapter of the selected *)
(* provider sends it.                                                       *)
GenPost ==
    /\ genResponse.kind # "pending"
    /\ \E b \in GenBodies :
        /\ genBody' = b
        /\ genReply' = NoReply
        /\ IF b.kind = "malformed"
           THEN /\ genResponse' = Sent(500, Null)
                /\ prompt' = <<>>
                /\ requests' = NoRequests
           ELSE IF ~(RequiredFields \subseteq b.fields)
           THEN /\ genResponse' = Sent(400, Null)
                /\ prompt' = <<>>
                /\ requests' = NoRequests
           ELSE /\ prompt' = createAdPrompt(b, Null)
                /\ IF b.provider \in Providers
                   THEN /\ requests' = [NoRequests EXCEPT ![b.provider] = 1]
                        /\ genResponse' = [NoResponse EXCEPT !.kind = "pending"]
                   ELSE /\ requests' = NoRequests
                        /\ genResponse' = Sent(500, Null)
    /\ UNCHANGED <<runVars, store, inflight, env, clock, runs, prev, readSaw, breaches,
                   disturbed, scenario, keyVars, routeVars, dedupVars, locVars, clientVars>>

(* The provider answers; the adapter returns or throws and the route sends  *)
(* its response.                                                            *)
GenSettle ==
    /\ genResponse.kind = "pending"
    /\ \E reply \in GenReplies :
        LET adContent == CASE genBody.provider = "claude" -> generateWithClaude(reply)
                           [] genBody.provider = "openai" -> generateWithOpenAI(reply)
                           [] genBody.provider = "gemini" -> generateWithGemini(reply)
        IN  /\ genReply' = reply
            /\ genResponse' = IF adContent.raised THEN Sent(500, Null)
                              ELSE Sent(200, adContent.value)
    /\ UNCHANGED <<runVars, store, inflight, env, clock, runs, prev, readSaw, breaches,
                   disturbed, scenario, keyVars, routeVars, dedupVars, locVars,
                   clientVars, genBody, prompt, requests>>

InitGenerate ==
    /\ InitRun
    /\ env = [url |-> TRUE, token |-> TRUE]
    /\ store = EmptyStore
    /\ scenario = "Rich"
    /\ KeyIdle
    /\ RouteIdle
    /\ DedupIdle
    /\ LocationIdle
    /\ GenerateIdle
    /\ ClientsIdle

NextGenerate == GenPost \/ GenSettle

SpecGenerate == InitGenerate /\ [][NextGenerate]_vars


\* ------------------------------------------------------- scrapeWebsite

\* largest maxRetries a caller passes to scrapeWebsite or retryWithBackoff
MaxRetriesArg == 3

\* what one client.scrape(url) comes to
Markdown(text) == [kind |-> "result", markdown |-> text, message |-> ""]
NoResult == [kind |-> "null", markdown |-> "", message |-> ""]
Throws(message) == [kind |-> "error", markdown |-> "", message |-> message]

ScrapeOutcomes ==
    {Markdown("# Acme"), Markdown(""), NoResult, Throws("timeout"), Throws("rate limit")}

\* the error an attempt ends with, "" when it returned markdown
attemptError(out) ==
    IF out.kind = "error" THEN out.message
    ELSE IF out.kind = "null" \/ out.markdown = ""
    THEN "No markdown content returned from Firecrawl"
    ELSE ""

\* a loop that runs one attempt more than maxRetries
loopContinuesOnceMore(attempt, maxRetries) == attempt <= maxRetries + 1

\* `attempt <= maxRetries`
loopContinues(attempt, maxRetries) == attempt <= maxRetries

\* a backoff of 1000 ms times the attempt number for every error
scrapeBackoffLinear(message, attempt, maxRetries) ==
    IF attempt < maxRetries THEN <<1000 * attempt>> ELSE <<>>

(* The sleeps of scrapeWebsite's catch block after failed attempt number    *)
(* attempt: none, or one of the given length in ms.                         *)
scrapeBackoff(message, attempt, maxRetries) ==
    IF MessageIncludes(<<message>>, "rate limit") THEN <<5000 * attempt>>
    ELSE IF attempt < maxRetries THEN <<1000 * 2 ^ (attempt - 1)>>
    ELSE <<>>

Sleeps(delays) == [i \in 1..Len(delays) |-> <<"sleep", delays[i]>>]

(* scrapeWebsite(url, maxRetries) up to its loop: an invalid URL and a      *)
(* missing API key raise before any attempt.                                *)
ScrapeEnter ==
    /\ scrape.loop.pc = "idle"
    /\ \E url \in {UrlA, UrlUk, UrlBad}, maxRetries \in 1..MaxRetriesArg :
        scrape' =
            [url |-> url,
             loop |->
                IF ~isValidUrl(url)
                THEN [NoLoop EXCEPT !.pc = "raised", !.maxRetries = maxRetries,
                                    !.error = <<"Invalid URL format: ", url.text>>]
                ELSE IF "FIRECRAWL_API_KEY" \notin creds
                THEN [NoLoop EXCEPT
                        !.pc = "raised", !.maxRetries = maxRetries,
                        !.error = <<"FIRECRAWL_API_KEY environment variable is not set">>]
                ELSE [NoLoop EXCEPT !.pc = "loop", !.maxRetries = maxRetries,
                                    !.attempt = 1]]
    /\ UNCHANGED <<runVars, store, inflight, env, clock, runs, prev, readSaw, breaches,
                   disturbed, scenario, keyVars, routeVars, dedupVars, locVars, genVars,
                   retry, search>>

(* One iteration of the loop: the attempt, and after a failure the catch    *)
(* block with its sleep; after the loop, the terminal error.                *)
ScrapeAttempt ==
    /\ scrape.loop.pc = "loop"
    /\ \E out \in ScrapeOutcomes :
        LET l == scrape.loop
            message == attemptError(out)
            tried == Append(l.log, <<"request", l.attempt>>)
        IN  scrape' =
                [scrape EXCEPT !.loop =
                    IF message = ""
                    THEN [l EXCEPT !.pc = "returned", !.value = out.markdown,
                                   !.log = tried]
                    ELSE [l EXCEPT
                            !.pc = IF loopContinues(l.attempt + 1, l.maxRetries)
                                   THEN "loop" ELSE "raised",
                            !.attempt = l.attempt + 1,
                            !.lastError = message,
                            !.log = tried \o Sleeps(scrapeBackoff(message, l.attempt,
                                                                  l.maxRetries)),
                            !.error = IF loopContinues(l.attempt + 1, l.maxRetries)
                                      THEN <<>>
                                      ELSE <<"Failed to scrape ", scrape.url, " after ",
                                             l.maxRetries, " attempts: ", message>>]]
    /\ UNCHANGED <<runVars, store, inflight, env, clock, runs, prev, readSaw, breaches,
                   disturbed, scenario, keyVars, routeVars, dedupVars, locVars, genVars,
                   retry, search>>

InitScrape ==
    /\ InitRun
    /\ env = [url |-> TRUE, token |-> TRUE]
    /\ store = EmptyStore
    /\ scenario = "Rich"
    /\ KeyIdle
    /\ DedupIdle
    /\ LocationIdle
    /\ GenerateIdle
    /\ ClientsIdle
    /\ creds \in {{"FIRECRAWL_API_KEY", "SERP_API_KEY", "ANTHROPIC_API_KEY"},
                  {"SERP_API_KEY", "ANTHROPIC_API_KEY"}}
    /\ body = NoBody
    /\ response = NoResponse
    /\ posts = 0

NextScrape == ScrapeEnter \/ ScrapeAttempt

SpecScrape == InitScrape /\ [][NextScrape]_vars


\* ------------------------------------------------------ the search client

(* What one getJson(...) comes to: a response object with its organic       *)
(* results and related searches, something that is no object, or an error.  *)
Response(organic, related) ==
    [kind |-> "object", organic_results |-> organic, related_searches |-> related,
     message |-> ""]
NoObject == [kind |-> "null", organic_results |-> <<>>, related_searches |-> <<>>,
             message |-> ""]
Rejects(message) ==
    [kind |-> "error", organic_results |-> <<>>, related_searches |-> <<>>,
     message |-> message]

\* an organic result; "" is a field the result does not have
Organic(link, title, snippet) == [link |-> link, title |-> title, snippet |-> snippet]

\* four results whose snippets are the texts number from..from+3
SnippetLetters == <<"a", "b", "x", "y">>
SnippetText(i) == <<SnippetLetters[(i \div 4) + 1], SnippetLetters[(i % 4) + 1]>>
FourResults(from) ==
    [i \in 1..4 |-> Organic(<<"https://r/", from + i - 1>>, <<"rising", "trends">>,
                            SnippetText(from + i - 1))]

SearchOutcomes ==
    {Response(FourResults(0), <<"query1", "", "query2">>),
     Response(FourResults(4), <<>>),
     Response(FourResults(8) \o <<Organic("", <<"coffee">>, <<"y", "y">>),
                                  Organic("https://r/x", <<>>, <<>>),
                                  Organic("https://r/y", <<"makers">>, <<"A", "!", "a">>)>>,
              <<"query3">>),
     Response(<<>>, <<>>),
     NoObject,
     Rejects("timeout"),
     Rejects("rate limit"),
     Rejects("429")}

SearchOps == {"searchCompetitors", "getMarketTrends", "searchPainPoints"}

\* the three query variants of searchPainPoints, in the order of the array
PainQueries == <<"problems site:reddit.com", "issues site:reddit.com", "complaints">>

\* the second argument of the operation's retryWithBackoff calls
maxRetriesOf(op) == IF op = "searchPainPoints" THEN 2 ELSE 3

\* retryWithBackoff's loop condition `attempt <= maxRetries`
retryContinues(attempt, maxRetries) == attempt <= maxRetries

\* a wrapper whose delay does not grow
retryDelayFixed(initialDelay, attempt) == initialDelay

\* initialDelay * Math.pow(2, attempt - 1)
retryDelay(initialDelay, attempt) == initialDelay * 2 ^ (attempt - 1)

\* retryWithBackoff(fn, maxRetries, initialDelay) entering its loop
RetryCall(maxRetries, initialDelay) ==
    [initialDelay |-> initialDelay,
     loop |-> [NoLoop EXCEPT !.pc = "loop", !.maxRetries = maxRetries, !.attempt = 1]]

\* the error fn throws on the outcome, "" when it returns the response
fnError(op, out) ==
    IF out.kind = "error" THEN out.message
    ELSE IF op = "searchCompetitors" /\ out.kind # "object"
    THEN "Invalid response from SerpAPI"
    ELSE ""

\* the catch blocks of the operations: the error they throw to the caller
surface(prefix, message) ==
    IF MessageIncludes(<<message>>, "rate limit") \/ MessageIncludes(<<message>>, "429")
    THEN <<"SerpAPI rate limit exceeded. Please wait before retrying.">>
    ELSE <<prefix, message>>

\* searchCompetitors: the first five organic results that have link and title
competitorsFrom(results) ==
    LET first == Take(results.organic_results, 5)
        kept == {i \in 1..Len(first) : first[i].link # "" /\ first[i].title # <<>>}
        at(n) == CHOOSE i \in kept : Cardinality({j \in kept : j <= i}) = n
    IN  [n \in 1..Cardinality(kept) |->
            [name |-> <<"domain of", first[at(n)].link>>, url |-> first[at(n)].link,
             title |-> first[at(n)].title, description |-> first[at(n)].snippet,
             position |-> at(n)]]

\* getMarketTrends: the words of more than four characters of a title
RECURSIVE longWordsOf(_)
longWordsOf(title) ==
    IF title = <<>> THEN <<>>
    ELSE (IF Len(Head(title)) > 4 THEN <<Head(title)>> ELSE <<>>)
         \o longWordsOf(Tail(title))

RECURSIVE topicsFrom(_)
topicsFrom(results) ==
    IF results = <<>> THEN <<>>
    ELSE (IF Head(results).title # <<>> THEN Take(longWordsOf(Head(results).title), 3)
          ELSE <<>>)
         \o topicsFrom(Tail(results))

trendDataFrom(related, trends) ==
    [relatedQueries |->
        Take(SelectSeq(related.related_searches, LAMBDA query : query # ""), 10),
     risingTopics |-> Take(Dedup(topicsFrom(Take(trends.organic_results, 5)), {}), 10)]

\* searchPainPoints: the results of one sub-query that have snippet and link
RECURSIVE painPointsFrom(_, _)
painPointsFrom(results, q) ==
    IF results = <<>> THEN <<>>
    ELSE (IF Head(results).snippet # <<>> /\ Head(results).link # ""
          THEN <<[text |-> Head(results).snippet,
                  source |-> IF q \in {1, 2} THEN "Reddit" ELSE "Web",
                  url |-> Head(results).link, mentions |-> 1]>>
          ELSE <<>>)
         \o painPointsFrom(Tail(results), q)

\* an operation that keeps every pain point it found
painPointsResultUncut(painPoints) == deduplicatePainPoints(painPoints)

\* `uniquePainPoints.slice(0, 10)` of the deduplicated list
painPointsResult(painPoints) == Take(deduplicatePainPoints(painPoints), 10)

Event(kind, q, n, message) == <<kind, q, n, message>>

(* A caller calls one of the three operations, or retryWithBackoff with     *)
(* arguments of its own; the operation reads the API key and enters its     *)
(* first retryWithBackoff.                                                  *)
SearchEnter ==
    /\ search.pc = "idle"
    /\ \/ \E op \in SearchOps :
            IF "SERP_API_KEY" \notin creds
            THEN /\ search' = [NoSearch EXCEPT
                                !.op = op, !.pc = "raised",
                                !.error = <<"SERP_API_KEY environment variable is not set">>]
                 /\ retry' = retry
            ELSE /\ search' = [NoSearch EXCEPT !.op = op, !.pc = "retrying", !.q = 1]
                 /\ retry' = RetryCall(maxRetriesOf(op), 1000)
       \/ \E maxRetries \in 1..MaxRetriesArg, initialDelay \in {250, 1000} :
            /\ search' = [NoSearch EXCEPT !.op = "retryWithBackoff", !.pc = "retrying",
                                          !.q = 1]
            /\ retry' = RetryCall(maxRetries, initialDelay)
    /\ UNCHANGED <<runVars, store, inflight, env, clock, runs, prev, readSaw, breaches,
                   disturbed, scenario, keyVars, routeVars, dedupVars, locVars, genVars,
                   scrape>>

(* One iteration of retryWithBackoff's loop: fn is invoked; its value is    *)
(* returned, or its error is kept and the loop sleeps before another        *)
(* attempt; after the loop the last error is thrown.                        *)
RetryAttempt ==
    /\ search.pc = "retrying"
    /\ retry.loop.pc = "loop"
    /\ \E out \in SearchOutcomes :
        LET l == retry.loop
            message == fnError(search.op, out)
            more == retryContinues(l.attempt + 1, l.maxRetries)
            events ==
                <<Event("request", search.q, l.attempt, "")>>
                \o (IF message = "" THEN <<>>
                    ELSE <<Event("failed", search.q, l.attempt, message)>>
                         \o (IF l.attempt < l.maxRetries
                             THEN <<Event("sleep", search.q,
                                          retryDelay(retry.initialDelay, l.attempt), "")>>
                             ELSE <<>>))
        IN  /\ retry' =
                [retry EXCEPT !.loop =
                    IF message = ""
                    THEN [l EXCEPT !.pc = "returned", !.value = out,
                                   !.log = l.log \o events]
                    ELSE [l EXCEPT !.pc = IF more THEN "loop" ELSE "raised",
                                   !.attempt = l.attempt + 1,
                                   !.lastError = message,
                                   !.log = l.log \o events,
                                   !.error = IF more THEN <<>> ELSE <<message>>]]
            /\ search' = [search EXCEPT !.log = search.log \o events]
    /\ UNCHANGED <<runVars, store, inflight, env, clock, runs, prev, readSaw, breaches,
                   disturbed, scenario, keyVars, routeVars, dedupVars, locVars, genVars,
                   scrape>>

\* searchPainPoints after sub-query q: the next sub-query, or the result
afterSubQuery(found, events) ==
    IF search.q < Len(PainQueries)
    THEN /\ search' = [search EXCEPT !.q = search.q + 1,
                                     !.got = search.got \o found,
                                     !.log = search.log \o events]
         /\ retry' = RetryCall(maxRetriesOf(search.op), 1000)
    ELSE /\ search' = [search EXCEPT !.pc = "returned",
                                     !.got = search.got \o found,
                                     !.log = search.log \o events,
                                     !.value = painPointsResult(search.got \o found)]
         /\ retry' = retry

(* retryWithBackoff has returned or thrown and the operation goes on: to    *)
(* its result, to its next request, or to its catch block.                  *)
SearchResume ==
    /\ search.pc = "retrying"
    /\ retry.loop.pc \in {"returned", "raised"}
    /\ LET ok == retry.loop.pc = "returned"
           results == retry.loop.value
           message == retry.loop.lastError
       IN  CASE search.op = "retryWithBackoff" ->
                    /\ search' = [search EXCEPT !.pc = retry.loop.pc,
                                                !.value = IF ok THEN <<results>> ELSE <<>>,
                                                !.error = retry.loop.error]
                    /\ retry' = retry
             [] search.op = "searchCompetitors" ->
                    /\ search' =
                        IF ok
                        THEN [search EXCEPT !.pc = "returned",
                                            !.value = competitorsFrom(results)]
                        ELSE [search EXCEPT
                                !.pc = "raised",
                                !.error = surface("Failed to search competitors: ",
                                                  message)]
                    /\ retry' = retry
             [] search.op = "getMarketTrends" ->
                    IF ~ok
                    THEN /\ search' =
                            [search EXCEPT
                                !.pc = "raised",
                                !.error = surface("Failed to get market trends: ",
                                                  message)]
                         /\ retry' = retry
                    ELSE IF results.kind # "object"
                    THEN /\ search' =
                            [search EXCEPT
                                !.pc = "raised",
                                !.error = surface("Failed to get market trends: ",
                                                  "TypeError")]
                         /\ retry' = retry
                    ELSE IF search.q = 1
                    THEN /\ search' = [search EXCEPT !.q = 2, !.got = <<results>>]
                         /\ retry' = RetryCall(maxRetriesOf(search.op), 1000)
                    ELSE /\ search' =
                            [search EXCEPT
                                !.pc = "returned",
                                !.value = <<trendDataFrom(search.got[1], results)>>]
                         /\ retry' = retry
             [] search.op = "searchPainPoints" ->
                    IF ok /\ results.kind = "object"
                    THEN afterSubQuery(painPointsFrom(results.organic_results, search.q),
                                       <<Event("sleep", search.q, 500, "")>>)
                    ELSE afterSubQuery(<<>>, <<>>)
    /\ UNCHANGED <<runVars, store, inflight, env, clock, runs, prev, readSaw, breaches,
                   disturbed, scenario, keyVars, routeVars, dedupVars, locVars, genVars,
                   scrape>>

InitSearch ==
    /\ InitRun
    /\ env = [url |-> TRUE, token |-> TRUE]
    /\ store = EmptyStore
    /\ scenario = "Rich"
    /\ KeyIdle
    /\ DedupIdle
    /\ LocationIdle
    /\ GenerateIdle
    /\ ClientsIdle
    /\ creds \in {{"FIRECRAWL_API_KEY", "SERP_API_KEY", "ANTHROPIC_API_KEY"},
                  {"FIRECRAWL_API_KEY", "ANTHROPIC_API_KEY"}}
    /\ body = NoBody
    /\ response = NoResponse
    /\ posts = 0

NextSearch == SearchEnter \/ RetryAttempt \/ SearchResume

SpecSearch == InitSearch /\ [][NextSearch]_vars


\* ------------------------------------------------------------------- claims

MarketCalls == {"searchCompetitors", "getMarketTrends", "searchPainPoints"}

\* the current run returned a freshly assembled result
Fresh == pc = "done" /\ brandResearch # NoBrand

\* the run ended after brand analysis had succeeded and the join had resolved
PastJoin ==
    /\ pc \in {"done", "failed"}
    /\ brandResearch # NoBrand
    /\ \A c \in Calls : mkt[c].status \in {"fulfilled", "rejected"}

NameAndUrl(list) == [i \in 1..Len(list) |-> <<list[i].name, list[i].url>>]
TopicsOf(list) == [i \in 1..Len(list) |-> list[i].topic]
TextsOf(list) == [i \in 1..Len(list) |-> list[i].text]

(* C1: once brand analysis has succeeded, whichever of the three market     *)
(* calls fail, runResearch returns a ResearchResult in which every call     *)
(* that succeeded contributes its data and every failed call is replaced by *)
(* its default (no competitors; no queries and no topics; no pain points).  *)
C1_MarketFallback ==
    PastJoin =>
        /\ pc = "done"
        /\ result # Null
        /\ NameAndUrl(result.competitors.competitors)
              = (IF mkt.comp.status = "fulfilled" THEN NameAndUrl(mkt.comp.value)
                 ELSE <<>>)
        /\ result.market.popularSearches
              = (IF mkt.trend.status = "fulfilled" THEN mkt.trend.value.relatedQueries
                 ELSE <<>>)
        /\ TopicsOf(result.market.trends)
              = (IF mkt.trend.status = "fulfilled" THEN mkt.trend.value.risingTopics
                 ELSE <<>>)
        /\ result.market.painPoints
              = (IF mkt.pain.status = "fulfilled" THEN TextsOf(mkt.pain.value)
                 ELSE <<>>)

(* C2: when brand analysis fails the run ends with an error whose message   *)
(* starts with 'Failed to analyze website: ', returns no result, has        *)
(* started no market call and sent no cache write; and no market call is    *)
(* started and no fresh result returned without a brand.                    *)
C2_BrandFailureIsFatal ==
    /\ (pc = "failed" /\ brandResearch = NoBrand) =>
          /\ Len(error) >= 1
          /\ error[1] = "Failed to analyze website: "
          /\ result = Null
          /\ \A c \in Calls : mkt[c].status = "idle"
          /\ calls \cap (MarketCalls \cup {"cacheSet"}) = {}
    /\ brandResearch = NoBrand =>
          /\ pc \notin {"brandDone", "fanout"}
          /\ \A c \in Calls : mkt[c].status = "idle"
          /\ pc = "done" => result.cached

C2_Witness == pc = "failed" /\ brandResearch = NoBrand /\ "llm" \in calls

(* C3: the run fails only in brand analysis: a run that holds a             *)
(* BrandResearch never ends in the failed state.                            *)
C3_FailedOnlyFromBrandAnalysis == pc = "failed" => brandResearch = NoBrand

(* C4: a market call starts only when brand analysis has completed, and the *)
(* run leaves the fan-out (to assemble) only when all three market calls    *)
(* have settled.                                                            *)
C4_Ordering ==
    [][/\ (\E c \in Calls : mkt[c].status = "idle" /\ mkt'[c].status # "idle")
            => (brandResearch # NoBrand /\ "llm" \in calls)
       /\ (pc = "fanout" /\ pc' \in {"done", "failed"})
            => \A c \in Calls : mkt[c].status \in {"fulfilled", "rejected"}]_vars

\* a run assembled after the last-listed call settled and the first failed
C4_Witness ==
    /\ Fresh
    /\ mkt.comp.status = "rejected"
    /\ mkt.trend.status = "fulfilled"
    /\ mkt.pain.status = "fulfilled"

(* C5: with forceRefresh = false, when the store answers the cache read     *)
(* with a record, the run returns that record at once: it has made no       *)
(* scrape, language-model or search call and sent no cache write.           *)
C5_CacheHitShortCircuits ==
    (~forceRefresh /\ readSaw.answered) =>
        /\ pc = "done"
        /\ Content(result) = Content(JSONparse(readSaw.value))
        /\ calls = {"cacheGet"}
        /\ brandResearch = NoBrand
        /\ \A c \in Calls : mkt[c].status = "idle"

C5_Witness == pc = "done" /\ ~forceRefresh /\ readSaw.answered /\ calls = {"cacheGet"}

(* C6: every record sent to or held by the store has cached = false, every  *)
(* record a cache read returned has cached = true, and every freshly        *)
(* assembled result has cached = false.                                     *)
C6_CachedFlag ==
    /\ \A w \in inflight : JSONparse(w.body.value).cached = FALSE
    /\ \A k \in DOMAIN store : JSONparse(store[k]).cached = FALSE
    /\ (pc = "done" /\ readSaw.answered) => result.cached = TRUE
    /\ Fresh => result.cached = FALSE

\* a result with cached = true was handed to setCachedResearch
C6_Witness ==
    /\ pc = "done"
    /\ readSaw.answered
    /\ result.cached
    /\ \E w \in inflight : w.key = getCacheKey(input.url)

\* the previous run returned a fresh result for the input of this finished run
RepeatedCall ==
    /\ pc = "done"
    /\ ~forceRefresh
    /\ prev.kind = "fresh"
    /\ prev.input = input

(* C7, as claimed: with a configured store whose requests all succeed, the  *)
(* run that follows a fresh run for the same input returns cached = true    *)
(* and the same content.                                                    *)
C7_RepeatIsCached ==
    (RepeatedCall /\ isRedisConfigured(env) /\ ~disturbed) =>
        /\ result.cached
        /\ Content(result) = Content(prev.result)

(* C7, amended: when the cache read of the following run is answered with   *)
(* the record the first run wrote, it returns cached = true and the same    *)
(* content.                                                                 *)
C7_RepeatIsCachedOnceWritten ==
    (/\ RepeatedCall
     /\ readSaw.answered
     /\ JSONparse(readSaw.value).timestamp = prev.result.timestamp) =>
        /\ result.cached
        /\ Content(result) = Content(prev.result)

C7_Witness ==
    /\ RepeatedCall
    /\ readSaw.answered
    /\ JSONparse(readSaw.value).timestamp = prev.result.timestamp
    /\ result.cached

(* C8: two parsable URLs whose host names are equal after removing a        *)
(* leading "www." have the same key, "research:" followed by that host      *)
(* name; an unparsable URL has the key "research:" followed by its text     *)
(* with every non-alphanumeric character replaced by "_".                   *)
C8_KeyIsHostWithoutLeadingWww ==
    keyOut # <<>> =>
        /\ (keyIn[1].ok /\ keyIn[2].ok
            /\ StripLeadingWww(keyIn[1].hostname) = StripLeadingWww(keyIn[2].hostname))
              => /\ keyOut[1] = keyOut[2]
                 /\ keyOut[1] = <<KeyPrefix>> \o StripLeadingWww(keyIn[1].hostname)
        /\ \A i \in {1, 2} :
              ~keyIn[i].ok =>
                 /\ Len(keyOut[i]) = Len(keyIn[i].text) + 1
                 /\ keyOut[i][1] = KeyPrefix
                 /\ \A j \in 1..Len(keyIn[i].text) :
                       keyOut[i][j + 1]
                          = (IF keyIn[i].text[j] \in AlnumChars THEN keyIn[i].text[j]
                             ELSE "_")

(* C9: no cache adapter call raises to its caller or returns a record when  *)
(* its request failed, and with the store not configured no request is sent *)
(* and the run goes on without a cache.                                     *)
C9_CacheNeverRaises ==
    /\ breaches = {}
    /\ error # <<"cache read raised">>
    /\ ~isRedisConfigured(env) =>
          /\ calls \cap {"cacheGet", "cacheSet"} = {}
          /\ inflight = {}
          /\ pc # "cacheCheck" => readSaw = NoRead
          /\ pc = "done" => ~result.cached

\* a cache read failed although the store holds the record, and the run went on
C9_Witness ==
    /\ isRedisConfigured(env)
    /\ pc = "scrape"
    /\ "cacheGet" \in calls
    /\ StoreHas(store, getCacheKey(input.url))

B(x) == IF x THEN 1 ELSE 0

CompetitorsFound == mkt.comp.status = "fulfilled" /\ Len(mkt.comp.value) > 0
QueriesFound ==
    IF mkt.trend.status = "fulfilled" THEN Len(mkt.trend.value.relatedQueries) > 0
    ELSE FALSE
PainPointsFound == mkt.pain.status = "fulfilled" /\ Len(mkt.pain.value) > 0

(* C10, as claimed: the score of a fresh result is 40 plus 25, 20 and 15    *)
(* for each market call that succeeded.                                     *)
C10_ScoreCountsSucceededCalls ==
    Fresh =>
        result.qualityScore
           = 40 + 25 * B(mkt.comp.status = "fulfilled")
                + 20 * B(mkt.trend.status = "fulfilled")
                + 15 * B(mkt.pain.status = "fulfilled")

(* C10, amended: the score of a fresh result is 40 plus 25 when the         *)
(* competitor call returned at least one competitor, 20 when the trends     *)
(* call returned at least one related query and 15 when the pain-point call *)
(* returned at least one pain point; it is one of the nine listed values.   *)
C10_ScoreCountsFoundData ==
    Fresh =>
        /\ result.qualityScore
              = 40 + 25 * B(CompetitorsFound) + 20 * B(QueriesFound)
                   + 15 * B(PainPointsFound)
        /\ result.qualityScore \in {40, 55, 60, 65, 75, 80, 85, 95, 100}

\* all three calls succeeded, the competitor call with an empty list
C10_Witness ==
    /\ Fresh
    /\ mkt.comp.status = "fulfilled"
    /\ mkt.comp.value = <<>>
    /\ QueriesFound
    /\ PainPointsFound
    /\ result.qualityScore = 75


\* the number of market calls of a run that were fulfilled
NumFulfilled(m) == Cardinality({c \in Calls : m[c].status = "fulfilled"})

\* the number of market calls of a run that returned data the score counts
NumFound(m) ==
    B(m.comp.status = "fulfilled" /\ Len(m.comp.value) > 0)
    + B(IF m.trend.status = "fulfilled" THEN Len(m.trend.value.relatedQueries) > 0
        ELSE FALSE)
    + B(m.pain.status = "fulfilled" /\ Len(m.pain.value) > 0)

\* this run and the run before it both returned a fresh result
TwoFresh == Fresh /\ prev.kind = "fresh"

(* C11, as claimed: of two fresh runs, the one in which more of the three   *)
(* market calls succeeded never scores lower; a run in which none succeeded *)
(* scores 40 and a run in which all three succeeded scores 100.             *)
C11_ScoreMonotoneInSucceededCalls ==
    /\ TwoFresh =>
          (NumFulfilled(prev.mkt) < NumFulfilled(mkt)
              => prev.result.qualityScore <= result.qualityScore)
    /\ Fresh =>
          /\ NumFulfilled(mkt) = 0 => result.qualityScore = 40
          /\ NumFulfilled(mkt) = 3 => result.qualityScore = 100

(* C11, amended: of two fresh runs, the one in which more of the three      *)
(* market calls returned data (a competitor, a related query, a pain point) *)
(* never scores lower; a run in which none did scores 40 and a run in which *)
(* all three did scores 100.                                                *)
C11_ScoreMonotoneInFoundData ==
    /\ TwoFresh =>
          (NumFound(prev.mkt) < NumFound(mkt)
              => prev.result.qualityScore <= result.qualityScore)
    /\ Fresh =>
          /\ NumFound(mkt) = 0 => result.qualityScore = 40
          /\ NumFound(mkt) = 3 => result.qualityScore = 100

\* the best run with one signal is followed by the worst run with two
C11_Witness ==
    /\ TwoFresh
    /\ NumFound(prev.mkt) = 1
    /\ NumFound(mkt) = 2
    /\ prev.result.qualityScore = 65
    /\ result.qualityScore = 75

\* the sources entries of a result that are of type web-scrape
WebScrapeSources(r) == {i \in 1..Len(r.sources) : r.sources[i].type = "web-scrape"}

\* what C12 says of the fresh result
EndToEndResult ==
    /\ result.qualityScore = 100
    /\ result.cached = FALSE
    /\ Cardinality(WebScrapeSources(result)) = 1
    /\ \A i \in WebScrapeSources(result) : result.sources[i].url = input.url

(* C12, as claimed: a fresh result of a run whose three market calls all    *)
(* succeeded has qualityScore 100, cached = false and exactly one sources   *)
(* entry of type web-scrape, whose url is the input url.                    *)
C12_AllSucceededScores100 == (Fresh /\ NumFulfilled(mkt) = 3) => EndToEndResult

(* C12, amended: a fresh result of a run whose three market calls all       *)
(* returned data has qualityScore 100, cached = false and exactly one       *)
(* sources entry of type web-scrape, whose url is the input url.            *)
C12_AllFoundScores100 == (Fresh /\ NumFound(mkt) = 3) => EndToEndResult

C12_Witness ==
    /\ Fresh
    /\ NumFound(mkt) = 3
    /\ Len(mkt.comp.value) = 5
    /\ Len(result.sources) = 2
    /\ result.qualityScore = 100

(* C13: a run with forceRefresh = true sends no cache read; when it ends   *)
(* with a result, the result is freshly assembled from brand analysis and   *)
(* settled market calls and has cached = false; and at the step that        *)
(* returns it a write of that result under the key of the input URL is sent *)
(* to the configured store.                                                 *)
C13_ForceRefreshSkipsCache ==
    /\ [](forceRefresh =>
            /\ "cacheGet" \notin calls
            /\ readSaw = NoRead
            /\ pc # "cacheCheck"
            /\ pc = "done" =>
                  /\ Fresh
                  /\ result.cached = FALSE
                  /\ {"scrape", "llm"} \subseteq calls
                  /\ \A c \in Calls : mkt[c].status \in {"fulfilled", "rejected"})
    /\ [][(forceRefresh /\ pc # "done" /\ pc' = "done" /\ isRedisConfigured(env))
            => \E w \in inflight' \ inflight :
                  /\ w.key = getCacheKey(input.url)
                  /\ Content(JSONparse(w.body.value)) = Content(result')]_vars

\* a forced run returned while the store still holds the older record
C13_Witness ==
    /\ forceRefresh
    /\ Fresh
    /\ StoreHas(store, getCacheKey(input.url))
    /\ JSONparse(store[getCacheKey(input.url)]).timestamp # result.timestamp
    /\ \E w \in inflight : w.key = getCacheKey(input.url)

(* C15: the step that returns a fresh result leaves the cache write sent   *)
(* and unanswered and the store as it was; no later step of the write,      *)
(* whether the store accepts it or the request fails, changes the returned  *)
(* result or makes the run an error; and a fresh result stands while its    *)
(* write is unanswered.                                                     *)
C15_WriteIsFireAndForget ==
    /\ [][(pc = "fanout" /\ pc' = "done" /\ isRedisConfigured(env))
            => /\ \E w \in inflight' \ inflight : w.run = runs
               /\ store' = store]_vars
    /\ [][(pc = "done" /\ inflight' # inflight /\ inflight' \subseteq inflight)
            => (pc' = "done" /\ result' = result /\ error' = error)]_vars
    /\ [](Fresh => (result # Null /\ error = <<>> /\ <<"set", "raised">> \notin breaches))

\* the run has returned its result and its write has not reached the store
C15_Witness ==
    /\ Fresh
    /\ \E w \in inflight : w.run = runs /\ ~StoreHas(store, w.key)
    /\ error = <<>>


\* the three credentials: scraping, search and the language model
Credentials == {"FIRECRAWL_API_KEY", "SERP_API_KEY", "ANTHROPIC_API_KEY"}

\* this step is the research route receiving a request
PostStep == posts' = posts + 1

(* C14: when any of the three credentials is absent, the research route     *)
(* answers every request, whatever its body, with the configuration error   *)
(* (503) in the step that receives it: runResearch is not entered, no run   *)
(* state changes, and no call to the scraper, the search service, the       *)
(* language model or the cache store is ever made.                          *)
C14_MissingCredentialIsConfigurationError ==
    /\ [][(PostStep /\ ~(Credentials \subseteq creds))
            => /\ response' = Sent(503, Null)
               /\ UNCHANGED <<runVars, runs, store, inflight, clock>>]_vars
    /\ [](~(Credentials \subseteq creds)
            => runs = 0 /\ pc = "idle" /\ calls = {} /\ inflight = {})

\* a well-formed request was answered 503 because one credential is missing
C14_Witness ==
    /\ Cardinality(creds) = 2
    /\ posts = 2
    /\ body = BodyUkForced
    /\ ResearchRequestSchema(body).ok
    /\ response.status = 503

\* the research route is waiting for the run of the request it received
RouteRun == response.kind = "pending"

(* C17: the location the fan-out uses, passed to searchCompetitors and      *)
(* recorded as audience.demographics.locations, is the location supplied    *)
(* with the research request whenever one is supplied.                      *)
C17_SuppliedLocationIsUsed ==
    (/\ RouteRun
     /\ "location" \in body.fields
     /\ body.location # "")
        => /\ pc = "fanout" => location = body.location
           /\ (pc = "done" /\ ~result.cached)
                => result.audience.demographics.locations = <<body.location>>

\* the characters the claim calls alphanumeric
Alphanumeric == LowerLetters \cup Digits

\* lowercased and reduced to alphanumeric characters only
AlnumOnly(text) ==
    LET low == [i \in 1..Len(text) |->
                    IF text[i] \in {"A", "B", "X"}
                    THEN CHOOSE c \in LowerLetters : LowerOf(text[i]) = c
                    ELSE text[i]]
    IN  Filter(low, Alphanumeric)

(* lowercased and reduced to alphanumeric and whitespace characters, with   *)
(* the whitespace at both ends removed                                      *)
AlnumAndInnerSpace(text) ==
    LET low == [i \in 1..Len(text) |->
                    IF text[i] \in {"A", "B", "X"}
                    THEN CHOOSE c \in LowerLetters : LowerOf(text[i]) = c
                    ELSE text[i]]
        kept == Filter(low, Alphanumeric \cup Whitespace)
        inner == {i \in 1..Len(kept) : kept[i] \notin Whitespace}
    IN  IF inner = {} THEN <<>>
        ELSE SubSeq(kept, CHOOSE i \in inner : \A j \in inner : i <= j,
                          CHOOSE i \in inner : \A j \in inner : i >= j)

\* the first KeyLen characters
Prefix50(text) == SubSeq(text, 1, IF Len(text) > KeyLen THEN KeyLen ELSE Len(text))

\* the positions in painIn of the pain points painOut keeps
KeptAt ==
    {i \in 1..Len(painIn) : \E j \in 1..Len(painOut.value) : painOut.value[j] = painIn[i]}

\* painOut is painIn without some of its elements, in painIn's order
OrderPreserved ==
    /\ \A j \in 1..Len(painOut.value) :
        \E i \in 1..Len(painIn) : painOut.value[j] = painIn[i]
    /\ \A j, k \in 1..Len(painOut.value) :
        j < k => \E i, l \in 1..Len(painIn) :
                    /\ i < l
                    /\ painOut.value[j] = painIn[i]
                    /\ painOut.value[k] = painIn[l]

TopLevelDomain(h) ==
    LET dots == {i \in 1..Len(h) : h[i] = "."}
    IN  IF dots = {} THEN <<>>
        ELSE SubSeq(h, (CHOOSE i \in dots : \A j \in dots : j <= i) + 1, Len(h))

\* the country of a top-level domain
CountryOf(tld) ==
    CASE tld = <<"u", "k">> -> "United Kingdom"
      [] tld = <<"c", "a">> -> "Canada"
      [] tld = <<"a", "u">> -> "Australia"
      [] OTHER -> "USA"

(* C18: with no explicit location, the location is inferred from the URL's  *)
(* top-level domain only: .uk gives United Kingdom, .ca Canada, .au         *)
(* Australia, every other host and every unparsable URL gives USA.          *)
C18_LocationFromTopLevelDomainOnly ==
    (locOut # "" /\ locIn.location = "")
        => locOut = IF locIn.url.ok THEN CountryOf(TopLevelDomain(locIn.url.hostname))
                    ELSE "USA"

\* the route has built a prompt for the request it received
PromptBuilt == genResponse.kind \in {"pending", "sent"} /\ prompt # <<>>

InPrompt(section) == \E i \in 1..Len(prompt) : prompt[i] = section

(* C19: when an ad-generation request embeds a ResearchResult, the prompt   *)
(* sent to the provider contains the research-powered block and the extra   *)
(* output fields reasoning, researchInsight and competitorGap; when it      *)
(* embeds none, the prompt contains neither.                                *)
C19_ResearchReachesPrompt ==
    PromptBuilt =>
        IF genBody.researchData # Null
        THEN /\ InPrompt("RESEARCH-POWERED INSIGHTS")
             /\ InPrompt("reasoning")
             /\ InPrompt("researchInsight")
             /\ InPrompt("competitorGap")
        ELSE /\ ~InPrompt("RESEARCH-POWERED INSIGHTS")
             /\ ~InPrompt("reasoning")
             /\ ~InPrompt("researchInsight")
             /\ ~InPrompt("competitorGap")

\* the reply holds a JSON object somewhere in its text
ContainsJsonObject(reply) ==
    /\ reply.kind = "text"
    /\ \E i, j \in 1..Len(reply.text) : i < j /\ IsJsonObject(SubSeq(reply.text, i, j))

\* the adapter of the selected provider was called and the route answered
AdapterCalled ==
    /\ genResponse.kind = "sent"
    /\ genReply # NoReply

(* C20: each provider adapter sends the prompt in exactly one request per   *)
(* call and raises when the reply contains no JSON object or when parsing   *)
(* the one it extracted fails.                                              *)
C20_AdaptersRaiseWithoutJsonObject ==
    /\ genResponse.kind = "pending"
        => requests = [NoRequests EXCEPT ![genBody.provider] = 1]
    /\ AdapterCalled
        => /\ requests = [NoRequests EXCEPT ![genBody.provider] = 1]
           /\ ~ContainsJsonObject(genReply) => genResponse.status = 500
           /\ (genReply.kind = "text" /\ jsonMatch(genReply.text).found
               /\ ~IsJsonObject(jsonMatch(genReply.text).text))
                => genResponse.status = 500

\* the events of a log that are requests, in order
RequestsIn(log) == SelectSeq(log, LAMBDA e : e[1] = "request")

\* the sleep that follows request number k in the log; <<>> when none does
SleepAfter(log, k) ==
    LET at == {i \in 1..Len(log) : log[i] = <<"request", k>>}
        i == CHOOSE j \in at : TRUE
    IN  IF at = {} \/ i = Len(log) \/ log[i + 1][1] # "sleep" THEN <<>>
        ELSE <<log[i + 1][2]>>

\* the attempts scrapeWebsite has made
ScrapesMade == Len(RequestsIn(scrape.loop.log))

(* C21: scrapeWebsite makes at most maxRetries attempts (3 by default); it  *)
(* returns the markdown of the first attempt that yields some and makes no  *)
(* further attempt; when all attempts fail it raises an error naming the    *)
(* URL and the attempt count; for a URL that is not well-formed it raises   *)
(* with zero attempts.                                                      *)
C21_ScrapeTerminatesWithinMaxRetries ==
    /\ [](/\ ScrapesMade <= scrape.loop.maxRetries
          /\ scrape.loop.maxRetries = 3 => ScrapesMade <= 3
          /\ scrape.loop.pc = "returned"
                => /\ scrape.loop.value # ""
                   /\ scrape.loop.log[Len(scrape.loop.log)] = <<"request", ScrapesMade>>
                   /\ scrape.loop.error = <<>>
          /\ (scrape.loop.pc = "raised" /\ ScrapesMade > 0)
                => /\ ScrapesMade = scrape.loop.maxRetries
                   /\ scrape.loop.error
                        = <<"Failed to scrape ", scrape.url, " after ",
                            scrape.loop.maxRetries, " attempts: ",
                            scrape.loop.lastError>>
          /\ (scrape.loop.pc # "idle" /\ ~scrape.url.ok)
                => /\ scrape.loop.pc = "raised"
                   /\ ScrapesMade = 0
                   /\ scrape.loop.error[1] = "Invalid URL format: ")
    /\ [][scrape.loop.pc \in {"returned", "raised"} => scrape' = scrape]_vars

\* the third attempt was the first to yield markdown
C21_Witness ==
    /\ scrape.loop.pc = "returned"
    /\ scrape.loop.maxRetries = 3
    /\ Len(RequestsIn(scrape.loop.log)) = 3

C29_NoSleepAfterFinalAttempt ==
    (scrape.loop.pc = "raised" /\ ScrapesMade = scrape.loop.maxRetries)
        => SleepAfter(scrape.loop.log, scrape.loop.maxRetries) = <<>>

\* the events of one kind in a log of the search client
EventsOf(log, kind) == SelectSeq(log, LAMBDA e : e[1] = kind)

\* 2^(k-1) for the attempts of the model
Doubling(k) == IF k = 1 THEN 1 ELSE IF k = 2 THEN 2 ELSE IF k = 3 THEN 4 ELSE 8

(* C23: retryWithBackoff invokes fn at most maxRetries times (3 for the     *)
(* requests of searchCompetitors and getMarketTrends, 2 for each pain-point *)
(* sub-query), returns the value of the first successful invocation         *)
(* without invoking fn again, waits initialDelay * 2^(k-1) ms (base 1000)   *)
(* after failed attempt k before the next attempt, and when every attempt   *)
(* fails rejects with the error of the last attempt.                        *)
C23_RetryWithBackoff ==
    /\ [](/\ Len(EventsOf(retry.loop.log, "request")) <= retry.loop.maxRetries
          /\ (search.op \in {"searchCompetitors", "getMarketTrends"}
              /\ retry.loop.pc # "idle")
                => retry.loop.maxRetries = 3 /\ retry.initialDelay = 1000
          /\ (search.op = "searchPainPoints" /\ retry.loop.pc # "idle")
                => retry.loop.maxRetries = 2 /\ retry.initialDelay = 1000
          /\ retry.loop.pc = "returned"
                => /\ retry.loop.log[Len(retry.loop.log)][1] = "request"
                   /\ Len(EventsOf(retry.loop.log, "failed"))
                        = Len(EventsOf(retry.loop.log, "request")) - 1
                   /\ retry.loop.value.kind # "error"
                   /\ retry.loop.error = <<>>
          /\ retry.loop.pc = "raised"
                => /\ Len(EventsOf(retry.loop.log, "failed")) = retry.loop.maxRetries
                   /\ retry.loop.log[Len(retry.loop.log)][1] = "failed"
                   /\ retry.loop.error = <<retry.loop.log[Len(retry.loop.log)][4]>>
          /\ \A i \in 1..Len(retry.loop.log) :
                (retry.loop.log[i][1] = "failed" /\ i < Len(retry.loop.log))
                    => /\ retry.loop.log[i + 1]
                            = <<"sleep", retry.loop.log[i][2],
                                retry.initialDelay * Doubling(retry.loop.log[i][3]), "">>
                       /\ i + 2 <= Len(retry.loop.log)
                            => retry.loop.log[i + 2][1] = "request"
          /\ \A i \in 1..Len(retry.loop.log) :
                retry.loop.log[i][1] = "sleep" => i > 1 /\ retry.loop.log[i - 1][1] = "failed")
    /\ [][retry.loop.pc \in {"returned", "raised"}
            => (retry'.loop.log = retry.loop.log \/ retry'.loop.log = <<>>)]_vars

\* three attempts with a base of 250 ms, all failed, the last with a timeout
C23_Witness ==
    /\ retry.loop.pc = "raised"
    /\ retry.initialDelay = 250
    /\ retry.loop.error = <<"timeout">>
    /\ EventsOf(retry.loop.log, "sleep") = <<<<"sleep", 1, 250, "">>, <<"sleep", 1, 500, "">>>>
    /\ retry.loop.log[2][4] = "rate limit"

\* the operation has ended and every request it sent failed on a rate limit
AllRateLimited ==
    /\ search.pc \in {"returned", "raised"}
    /\ EventsOf(search.log, "request") # <<>>
    /\ Len(EventsOf(search.log, "failed")) = Len(EventsOf(search.log, "request"))
    /\ \A i \in 1..Len(search.log) :
        search.log[i][1] = "failed" => search.log[i][4] \in {"rate limit", "429"}

(* C24: when the requests of searchCompetitors, getMarketTrends or          *)
(* searchPainPoints keep failing with an error whose message contains       *)
(* 'rate limit' or '429', the operation throws 'SerpAPI rate limit          *)
(* exceeded. Please wait before retrying.' to its caller.                   *)
C24_RateLimitIsSurfaced ==
    (search.op \in SearchOps /\ AllRateLimited)
        => /\ search.pc = "raised"
           /\ search.error = <<"SerpAPI rate limit exceeded. Please wait before retrying.">>

\* the sub-queries the requests of the log belong to, in the log's order
QueriesOf(log) ==
    LET requested == EventsOf(log, "request")
    IN  [i \in 1..Len(requested) |-> requested[i][2]]

\* the comparison key of a pain point
KeyOf(point) == Prefix50(AlnumAndInnerSpace(point.text))

(* C25: searchPainPoints issues its three query variants one after another  *)
(* in the order of the array; a sub-query that fails after its attempts is  *)
(* skipped and the remaining ones are still issued; it returns the          *)
(* deduplicated pain points of the sub-queries that succeeded, at most 10,  *)
(* and an empty list when all three fail.                                   *)
C25_PainPointsToleratesFailedSubQueries ==
    (search.op = "searchPainPoints" /\ "SERP_API_KEY" \in creds)
        => /\ search.pc # "raised"
           /\ \A i \in 1..(Len(QueriesOf(search.log)) - 1) :
                QueriesOf(search.log)[i] <= QueriesOf(search.log)[i + 1]
           /\ \A i \in 1..Len(QueriesOf(search.log)) :
                /\ QueriesOf(search.log)[i] <= search.q
                /\ \A n \in 1..(QueriesOf(search.log)[i] - 1) :
                    \E j \in 1..(i - 1) : QueriesOf(search.log)[j] = n
           /\ \A n \in 1..Len(PainQueries) :
                Cardinality({i \in 1..Len(search.log) :
                                search.log[i][1] = "request" /\ search.log[i][2] = n}) <= 2
           /\ search.pc = "returned"
                => /\ {QueriesOf(search.log)[i] : i \in 1..Len(QueriesOf(search.log))}
                        = 1..Len(PainQueries)
                   /\ Len(search.value) <= 10
                   /\ \A i, j \in 1..Len(search.value) :
                        i # j => KeyOf(search.value[i]) # KeyOf(search.value[j])
                   /\ \A i, j \in 1..Len(search.value) :
                        i < j => \E g, h \in 1..Len(search.got) :
                                    /\ g < h
                                    /\ search.got[g] = search.value[i]
                                    /\ search.got[h] = search.value[j]
                   /\ \A g \in 1..Len(search.got) :
                        \/ Len(search.value) = 10
                        \/ \E i \in 1..Len(search.value) :
                            KeyOf(search.value[i]) = KeyOf(search.got[g])
                   /\ \A i \in 1..Len(search.value) :
                        \E g \in 1..Len(search.got) :
                            /\ search.got[g] = search.value[i]
                            /\ \A h \in 1..(g - 1) :
                                KeyOf(search.got[h]) # KeyOf(search.got[g])
                   /\ Len(EventsOf(search.log, "failed")) = 2 * Len(PainQueries)
                        => search.value = <<>>

(* the second sub-query failed twice and was skipped; the third was issued  *)
(* and its pain points follow those of the first                            *)
C25_Witness ==
    /\ search.op = "searchPainPoints"
    /\ search.pc = "returned"
    /\ QueriesOf(search.log) = <<1, 2, 2, 3>>
    /\ Len(search.value) = 8
    /\ search.value[5].source = "Web"

(* C26: in searchPainPoints, after sub-query i ends, whether it succeeded   *)
(* or was skipped after failing, sub-query i+1 is not issued before a       *)
(* pause of 500 ms.                                                         *)
C26_PauseBetweenSubQueries ==
    search.op = "searchPainPoints"
        => \A i \in 2..Len(search.log) :
            (/\ search.log[i][1] = "request"
             /\ search.log[i][2] > search.log[i - 1][2])
                => search.log[i - 1] = <<"sleep", search.log[i][2] - 1, 500, "">>

\* the route answers a runResearch that threw
AnswersFailure == response.kind = "pending" /\ response'.kind = "sent" /\ pc = "failed"

NamesRateLimit == MessageIncludes(error, "rate limit")
NamesTimeout == MessageIncludes(error, "timeout") \/ MessageIncludes(error, "timed out")
NamesScrape == MessageIncludes(error, "Invalid URL") \/ MessageIncludes(error, "Failed to scrape")

(* C27 as stated: when runResearch fails the route answers success = false  *)
(* with a duration and one cause chosen by message content: a rate-limit    *)
(* message gives 'try again' (429), a timeout gives 'simpler query' (504),  *)
(* 'Invalid URL' or 'Failed to scrape' in the message gives 'Unable to      *)
(* analyze website' (400), any other failure the generic answer (500).      *)
C27_CauseByMessageContent ==
    [][AnswersFailure
        => /\ response'.success = FALSE
           /\ "duration" \in response'.keys
           /\ NamesRateLimit
                => /\ response'.status = 429
                   /\ response'.error
                        = <<"API rate limit exceeded. Please try again in a few minutes.">>
           /\ NamesTimeout
                => /\ response'.status = 504
                   /\ response'.error
                        = <<"Research request timed out. Please try again with a simpler query.">>
           /\ NamesScrape
                => /\ response'.status = 400
                   /\ response'.error = <<"Unable to analyze website: ">> \o error
           /\ ~(NamesRateLimit \/ NamesTimeout \/ NamesScrape)
                => /\ response'.status = 500
                   /\ response'.error = <<"Research failed: ">> \o error]_vars

(* C27, amended: the causes are tested in the order rate limit, timeout,    *)
(* invalid URL or scrape failure, and the first that the message contains   *)
(* decides; a scrape failure gives 'Unable to analyze website' (400) only   *)
(* when its message names neither a rate limit nor a timeout.               *)
C27_FirstCauseInOrder ==
    [][AnswersFailure
        => /\ response'.success = FALSE
           /\ "duration" \in response'.keys
           /\ response'.data = Null
           /\ IF NamesRateLimit
              THEN /\ response'.status = 429
                   /\ response'.error
                        = <<"API rate limit exceeded. Please try again in a few minutes.">>
              ELSE IF NamesTimeout
              THEN /\ response'.status = 504
                   /\ response'.error
                        = <<"Research request timed out. Please try again with a simpler query.">>
              ELSE IF NamesScrape
              THEN /\ response'.status = 400
                   /\ response'.error = <<"Unable to analyze website: ">> \o error
              ELSE /\ response'.status = 500
                   /\ response'.error = <<"Research failed: ">> \o error]_vars

\* a scrape that failed on timeouts, answered as a timeout
C27_Witness ==
    /\ response.kind = "sent"
    /\ pc = "failed"
    /\ posts > 0
    /\ MessageIncludes(error, "Failed to scrape")
    /\ MessageIncludes(error, "timeout")
    /\ response.status = 504

\* the run ended on a record read from the cache
CacheHit == pc = "done" /\ result.cached

(* C28: the cache is keyed by host alone: on a cache hit runResearch        *)
(* returns the stored record unchanged except for cached = true, a record   *)
(* that was assembled for a URL with the same key, so its brand,            *)
(* competitors, market, audience and qualityScore do not depend on the      *)
(* productType, objective or location of the request that hit the cache; a  *)
(* request that hits the entry an earlier request for the same host wrote   *)
(* receives that request's content, whatever its own productType or         *)
(* objective.                                                               *)
C28_CacheHitIgnoresRequestFields ==
    CacheHit
        => /\ readSaw.answered
           /\ result = [JSONparse(readSaw.value) EXCEPT !.cached = TRUE]
           /\ getCacheKey(result.sources[1].url) = getCacheKey(input.url)
           /\ (/\ prev.kind = "fresh"
               /\ JSONparse(readSaw.value).timestamp = prev.result.timestamp)
                => /\ getCacheKey(prev.input.url) = getCacheKey(input.url)
                   /\ \A k \in {"brand", "competitors", "market", "audience",
                                "qualityScore"} : result[k] = prev.result[k]
                   /\ Content(result) = Content(prev.result)
                   /\ result.audience.awarenessLevel
                        = inferAwarenessLevel(prev.input.objective)

(* a request for shoes / market-trends hit the record assembled for the     *)
(* crm / full-research request of the same host                             *)
C28_Witness ==
    /\ CacheHit
    /\ prev.kind = "fresh"
    /\ input.url # prev.input.url
    /\ input.productType # prev.input.productType
    /\ input.objective # prev.input.objective
    /\ input.location # prev.input.location
    /\ result.sources[1].url = prev.input.url
    /\ inferAwarenessLevel(input.objective) # result.audience.awarenessLevel

\* the form was submitted with a valid URL, a product type and this goal
Submitted(goal) ==
    /\ PostStep
    /\ body'.kind = "json"
    /\ isValidUrl(body'.websiteUrl)
    /\ \E i \in 1..Len(PRODUCT_TYPES) : body'.productType = PRODUCT_TYPES[i]
    /\ body'.campaignGoal = goal

(* C30: every campaign goal the research form can submit is accepted by the *)
(* research route: for each option of the campaignGoal selector, a          *)
(* submission with a valid URL and a selected product type passes the       *)
(* route's request validation and reaches runResearch instead of ending in  *)
(* a 400 validation error.                                                  *)
C30_FormGoalsAreAccepted ==
    [][\A i \in 1..Len(CAMPAIGN_GOALS) :
        (Submitted(CAMPAIGN_GOALS[i]) /\ validateEnvironment(creds).valid)
            => /\ response'.kind = "pending"
               /\ response'.status # 400
               /\ input'.objective = CAMPAIGN_GOALS[i]
               /\ runs' = runs + 1]_vars
=============================================================================
